---- MODULE Spec2Model ----
(***************************************************************************)
(* Rift: scanner, recursive-descent parser, resolver and tree-walking      *)
(* evaluator, driven by run() on an Interpreter that may be shared by      *)
(* several runs (REPL turns).                                              *)
(*                                                                         *)
(* Objects live in heaps indexed by identity: AST nodes in `nodes` (the    *)
(* index is id(expr)), Environment objects in `envs`, RiftFunction,        *)
(* RiftClass and RiftInstance objects in `functions`, `classes` and        *)
(* `instances`.  The Python call stack of the evaluator is the explicit    *)
(* stack `kont`; a raised exception is the register `mode`.  The parser    *)
(* and the resolver carry their call stacks in their records, and the      *)
(* scanner advances one token per step.                                    *)
(*                                                                         *)
(* Numbers are restricted to the integers (the programs run here use no    *)
(* fractional arithmetic); every runtime value is a record [t, n, s].      *)
(***************************************************************************)
EXTENDS Integers, Sequences, FiniteSets, TLC

VARIABLES
    pc,            \* position inside run(): idle, scan, parse, resolve, evaluate, interpret
    runs,          \* number of run() calls started on the shared Interpreter
    source,        \* the source text of the current run, one character per element
    scanner,       \* the Scanner object of the current run
    parser,        \* the Parser object of the current run
    resolver,      \* the Resolver object of the current run
    tokens,        \* scanner.tokens
    scanErrors,    \* scanner.errors
    parseErrors,   \* parser.errors
    statements,    \* the statement list returned by parser.parse()
    resolveErrors, \* resolver.errors
    nodes,         \* heap of AST nodes
    locals,        \* Interpreter._locals: expression id -> depth
    envs,          \* heap of Environment objects
    environment,   \* Interpreter._environment
    functions,     \* heap of RiftFunction objects
    classes,       \* heap of RiftClass objects
    instances,     \* heap of RiftInstance objects
    kont,          \* the evaluator's call stack
    mode,          \* "run", or the exception in flight: "return", "error", "crash"
    acc,           \* the value just computed (or carried by the ReturnException)
    output,        \* what print() has written
    stages,        \* which stages of run() have been run, in order
    result,        \* what each finished run() returned: "True", "False", "raised"
    executed,      \* the top-level statements interpret() has started, in order
    errorAt        \* index of the top-level statement a RiftRuntimeError was
                   \* raised in during this run, 0 while there is none

vars == <<pc, runs, source, scanner, parser, resolver, tokens, scanErrors, parseErrors, statements,
          resolveErrors, nodes, locals, envs, environment, functions, classes,
          instances, kont, mode, acc, output, stages, result, executed,
          errorAt>>

-----------------------------------------------------------------------------
(* Values                                                                  *)

Val(t, n, s) == [t |-> t, n |-> n, s |-> s]
Nil == Val("nil", 0, "")
Bool(b) == Val("bool", IF b THEN 1 ELSE 0, "")
Num(n) == Val("num", n, "")
Str(s) == Val("str", 0, s)
FnVal(id) == Val("fn", id, "")
ClassVal(id) == Val("class", id, "")
InstVal(id) == Val("inst", id, "")
NativeVal(name) == Val("native", 0, name)

-----------------------------------------------------------------------------
(* Characters                                                              *)

DigitChars == <<"0", "1", "2", "3", "4", "5", "6", "7", "8", "9">>
Digits == {DigitChars[i] : i \in 1..10}
DigitVal(c) == (CHOOSE i \in 1..10 : DigitChars[i] = c) - 1
Letters ==
    {"a", "b", "c", "d", "e", "f", "g", "h", "i", "j", "k", "l", "m", "n",
     "o", "p", "q", "r", "s", "t", "u", "v", "w", "x", "y", "z",
     "A", "B", "C", "D", "E", "F", "G", "M", "N", "S", "T", "X"}
isdigit(c) == c \in Digits
isalpha(c) == c \in Letters
isalnum(c) == isalpha(c) \/ isdigit(c)
NUL == "NUL"

RECURSIVE Join(_)
Join(chars) ==
    IF chars = <<>> THEN "" ELSE Head(chars) \o Join(Tail(chars))

-----------------------------------------------------------------------------
(* tokens.py                                                               *)

KEYWORDS ==
    [and |-> "AND", class |-> "CLASS", else |-> "ELSE", false |-> "FALSE",
     fn |-> "FN", for |-> "FOR", if |-> "IF", let |-> "LET", nil |-> "NIL",
     or |-> "OR", print |-> "PRINT", return |-> "RETURN", super |-> "SUPER",
     this |-> "THIS", true |-> "TRUE", while |-> "WHILE"]

Token(type, lexeme, literal, line, column) ==
    [type |-> type, lexeme |-> lexeme, literal |-> literal,
     line |-> line, column |-> column]

-----------------------------------------------------------------------------
(* scanner.py.  A scanner is the record of the Scanner object's fields.    *)

Scanner(src) ==
    [source |-> src, tokens |-> <<>>, start |-> 0, current |-> 0,
     line |-> 1, column |-> 1, errors |-> <<>>]

ScanError(line, column, msg) == [line |-> line, column |-> column, msg |-> msg]

Scanner_is_at_end(s) == s.current >= Len(s.source)

Scanner_peek(s) == IF Scanner_is_at_end(s) THEN NUL ELSE s.source[s.current + 1]

Scanner_peek_next(s) ==
    IF s.current + 1 >= Len(s.source) THEN NUL ELSE s.source[s.current + 2]

\* _advance returns the character; this is the state it leaves
Scanner_advance(s) == [s EXCEPT !.current = @ + 1, !.column = @ + 1]

Scanner_match(s, expected) ==
    ~Scanner_is_at_end(s) /\ s.source[s.current + 1] = expected

\* source[start:current], as its characters and as a string
Scanner_lexeme_tail(s) == SubSeq(s.source, s.start + 2, s.current)

Scanner_lexeme(s) == SubSeq(s.source, s.start + 1, s.current)

Scanner_text(s) == Join(Scanner_lexeme(s))

Scanner_add_token(s, token_type, literal) ==
    LET col == s.column - (s.current - s.start)
    IN  [s EXCEPT !.tokens =
            Append(@, Token(token_type, Scanner_text(s), literal, s.line, col))]

Scanner_two(s, ch, two, one) ==
    IF Scanner_match(s, ch)
    THEN Scanner_add_token(Scanner_advance(s), two, Nil)
    ELSE Scanner_add_token(s, one, Nil)

RECURSIVE Scanner_comment(_)
Scanner_comment(s) ==
    IF ~Scanner_is_at_end(s) /\ Scanner_peek(s) # "\n"
    THEN Scanner_comment(Scanner_advance(s))
    ELSE s

\* the loop of _string; value is "".join(value_chars)
RECURSIVE Scanner_string_loop(_, _)
Scanner_string_loop(s, value) ==
    IF ~Scanner_is_at_end(s) /\ Scanner_peek(s) # "\""
    THEN LET ch == Scanner_peek(s)
             s1 == IF ch = "\n" THEN [s EXCEPT !.line = @ + 1, !.column = 0] ELSE s
         IN  IF ch = "\\"
             THEN LET s2 == Scanner_advance(s1)
                      esc == IF ~Scanner_is_at_end(s2) THEN Scanner_peek(s2) ELSE ""
                      s3 == IF ~Scanner_is_at_end(s2) THEN Scanner_advance(s2) ELSE s2
                      add == CASE esc = "n" -> "\n"
                               [] esc = "t" -> "\t"
                               [] esc = "\\" -> "\\"
                               [] esc = "\"" -> "\""
                               [] OTHER -> "\\" \o esc
                  IN  Scanner_string_loop(s3, value \o add)
             ELSE Scanner_string_loop(Scanner_advance(s1), value \o ch)
    ELSE [s |-> s, value |-> value]

Scanner_string(s) ==
    LET start_line == s.line
        start_col == s.column - 1
        r == Scanner_string_loop(s, "")
    IN  IF Scanner_is_at_end(r.s)
        THEN [r.s EXCEPT !.errors =
                 Append(@, ScanError(start_line, start_col, "unterminated string"))]
        ELSE Scanner_add_token(Scanner_advance(r.s), "STRING", Str(r.value))

RECURSIVE Scanner_digits(_)
Scanner_digits(s) ==
    IF ~Scanner_is_at_end(s) /\ isdigit(Scanner_peek(s))
    THEN Scanner_digits(Scanner_advance(s))
    ELSE s

RECURSIVE DigitsValue(_, _)
DigitsValue(chars, sofar) ==
    IF chars = <<>> THEN sofar
    ELSE DigitsValue(Tail(chars), 10 * sofar + DigitVal(Head(chars)))

RECURSIVE StripZeros(_)
StripZeros(chars) ==
    IF chars # <<>> /\ chars[Len(chars)] = "0"
    THEN StripZeros(SubSeq(chars, 1, Len(chars) - 1))
    ELSE chars

\* float(text) for a digit run with an optional fraction: the integer part in
\* n, the significant fraction digits (none for an integer) in s
Float(chars) ==
    LET dot == {i \in 1..Len(chars) : chars[i] = "."}
        cut == IF dot = {} THEN Len(chars) + 1 ELSE CHOOSE i \in dot : TRUE
    IN  Val("num", DigitsValue(SubSeq(chars, 1, cut - 1), 0),
            Join(StripZeros(SubSeq(chars, cut + 1, Len(chars)))))

Scanner_number(s) ==
    LET s1 == Scanner_digits(s)
        s2 == IF ~Scanner_is_at_end(s1) /\ Scanner_peek(s1) = "."
                 /\ isdigit(Scanner_peek_next(s1))
              THEN Scanner_digits(Scanner_advance(s1))
              ELSE s1
    IN  Scanner_add_token(s2, "NUMBER",
                          Float(SubSeq(s2.source, s2.start + 1, s2.current)))

RECURSIVE Scanner_identifier_loop(_)
Scanner_identifier_loop(s) ==
    IF ~Scanner_is_at_end(s) /\ (isalnum(Scanner_peek(s)) \/ Scanner_peek(s) = "_")
    THEN Scanner_identifier_loop(Scanner_advance(s))
    ELSE s

Scanner_identifier(s) ==
    LET s1 == Scanner_identifier_loop(s)
        text == Scanner_text(s1)
        token_type == IF text \in DOMAIN KEYWORDS THEN KEYWORDS[text] ELSE "IDENTIFIER"
    IN  Scanner_add_token(s1, token_type, Nil)

SingleChar ==
    [c \in {"(", ")", "{", "}", ",", ".", "-", "+", ";", "*", "%"} |->
        CASE c = "(" -> "LEFT_PAREN" [] c = ")" -> "RIGHT_PAREN"
          [] c = "{" -> "LEFT_BRACE" [] c = "}" -> "RIGHT_BRACE"
          [] c = "," -> "COMMA" [] c = "." -> "DOT" [] c = "-" -> "MINUS"
          [] c = "+" -> "PLUS" [] c = ";" -> "SEMICOLON" [] c = "*" -> "STAR"
          [] c = "%" -> "PERCENT"]

Scanner_scan_token(s0) ==
    LET c == s0.source[s0.current + 1]
        s == Scanner_advance(s0)
    IN  CASE c \in DOMAIN SingleChar -> Scanner_add_token(s, SingleChar[c], Nil)
          [] c = "!" -> Scanner_two(s, "=", "BANG_EQUAL", "BANG")
          [] c = "=" -> Scanner_two(s, "=", "EQUAL_EQUAL", "EQUAL")
          [] c = "<" -> Scanner_two(s, "=", "LESS_EQUAL", "LESS")
          [] c = ">" -> Scanner_two(s, "=", "GREATER_EQUAL", "GREATER")
          [] c = "/" -> IF Scanner_match(s, "/")
                        THEN Scanner_comment(Scanner_advance(s))
                        ELSE Scanner_add_token(s, "SLASH", Nil)
          [] c \in {" ", "\r", "\t"} -> s
          [] c = "\n" -> [s EXCEPT !.line = @ + 1, !.column = 1]
          [] c = "\"" -> Scanner_string(s)
          [] OTHER ->
                IF isdigit(c) THEN Scanner_number(s)
                ELSE IF isalpha(c) \/ c = "_" THEN Scanner_identifier(s)
                ELSE [s EXCEPT !.errors =
                         Append(@, ScanError(s.line, s.column - 1, "unexpected character"))]

\* one turn of the loop of scan_tokens, lines 18-20
Scanner_scan_next(s) == Scanner_scan_token([s EXCEPT !.start = s.current])

\* line 21
Scanner_scan_tokens(s) ==
    [s EXCEPT !.tokens = Append(@, Token("EOF", "", Nil, s.line, s.column))]

-----------------------------------------------------------------------------
(* ast_nodes.py.  One record shape for every node; unused fields keep      *)
(* their defaults.  A child is the id of a node, 0 standing for None.      *)

NoNode ==
    [type |-> "", name |-> "", op |-> "", a |-> 0, b |-> 0, c |-> 0,
     list |-> <<>>, params |-> <<>>, lit |-> Nil, line |-> 0]

BinaryExpr(left, operator, right) ==
    [NoNode EXCEPT !.type = "Binary", !.a = left, !.op = operator, !.b = right]
UnaryExpr(operator, operand) ==
    [NoNode EXCEPT !.type = "Unary", !.op = operator, !.a = operand]
LiteralExpr(value) == [NoNode EXCEPT !.type = "Literal", !.lit = value]
GroupingExpr(expression) == [NoNode EXCEPT !.type = "Grouping", !.a = expression]
VariableExpr(name) == [NoNode EXCEPT !.type = "Variable", !.name = name]
AssignExpr(name, value) == [NoNode EXCEPT !.type = "Assign", !.name = name, !.a = value]
LogicalExpr(left, operator, right) ==
    [NoNode EXCEPT !.type = "Logical", !.a = left, !.op = operator, !.b = right]
CallExpr(callee, arguments) ==
    [NoNode EXCEPT !.type = "Call", !.a = callee, !.list = arguments]
GetExpr(object, name) == [NoNode EXCEPT !.type = "Get", !.a = object, !.name = name]
SetExpr(object, name, value) ==
    [NoNode EXCEPT !.type = "Set", !.a = object, !.name = name, !.b = value]
ThisExpr == [NoNode EXCEPT !.type = "This", !.name = "this"]
SuperExpr(method) == [NoNode EXCEPT !.type = "Super", !.name = "super", !.op = method]

ExpressionStmt(expression) == [NoNode EXCEPT !.type = "Expression", !.a = expression]
PrintStmt(expression) == [NoNode EXCEPT !.type = "Print", !.a = expression]
LetStmt(name, initializer) == [NoNode EXCEPT !.type = "Let", !.name = name, !.a = initializer]
BlockStmt(stmts) == [NoNode EXCEPT !.type = "Block", !.list = stmts]
IfStmt(condition, then_branch, else_branch) ==
    [NoNode EXCEPT !.type = "If", !.a = condition, !.b = then_branch, !.c = else_branch]
WhileStmt(condition, body) == [NoNode EXCEPT !.type = "While", !.a = condition, !.b = body]
FunctionStmt(name, params, body) ==
    [NoNode EXCEPT !.type = "Function", !.name = name, !.params = params, !.list = body]
ReturnStmt(value) == [NoNode EXCEPT !.type = "Return", !.a = value]
ClassStmt(name, superclass, methods) ==
    [NoNode EXCEPT !.type = "Class", !.name = name, !.a = superclass, !.list = methods]

-----------------------------------------------------------------------------
(* parser.py.  A parser is the record of the Parser object's fields plus   *)
(* the node heap it allocates in and the Python call stack of its          *)
(* recursive descent.  A frame of stack is one active call: f the method,  *)
(* i the point it has reached (0 on entry, then one point after each call  *)
(* it makes), at the value of self.current when the call was made, the     *)
(* rest its arguments and locals.  r (rs for a list) is the                *)
(* value the last call returned, exc an exception in flight: every        *)
(* operator leaves a parser with exc set as it is, and the exception       *)
(* passes through the frames up to a clause that catches it.  The          *)
(* exception is a ParseError, or, with recursion set, the RecursionError   *)
(* CPython raises when a call would make the stack deeper than its limit.  *)

\* sys.getrecursionlimit() of CPython, counted in calls of Parser methods
RecursionLimit == 1000
MaxParams == 255
MaxArguments == 255

Parser(toks, heap) ==
    [tokens |-> toks, current |-> 0, errors |-> <<>>, nodes |-> heap,
     exc |-> FALSE, recursion |-> FALSE, r |-> 0, rs |-> <<>>, stack |-> <<>>]

Parser_frame(f) ==
    [f |-> f, i |-> 0, name |-> "", op |-> "", a |-> 0, b |-> 0, c |-> 0,
     list |-> <<>>, at |-> 0]

Parser_top(p) == p.stack[Len(p.stack)]

\* the active call stores its locals
Parser_keep(p, f) == [p EXCEPT !.stack[Len(p.stack)] = f]

\* the active call calls g and goes on at point i when g returns
Parser_calls(p, i, g) ==
    IF p.exc THEN p
    ELSE IF Len(p.stack) >= RecursionLimit
         THEN [p EXCEPT !.exc = TRUE, !.recursion = TRUE]
    ELSE [p EXCEPT !.stack = Append([p.stack EXCEPT ![Len(p.stack)].i = i],
                                    [g EXCEPT !.at = p.current])]

\* the active call returns what r (rs) holds
Parser_returns(p) ==
    IF p.exc THEN p ELSE [p EXCEPT !.stack = SubSeq(@, 1, Len(@) - 1)]

Parser_return(p, value) == Parser_returns([p EXCEPT !.r = value])

\* a frame is left by the exception in flight
Parser_unwind(p) == [p EXCEPT !.stack = SubSeq(@, 1, Len(@) - 1)]

ParseError(token, msg) == [token |-> token.lexeme, line |-> token.line, msg |-> msg]

Parser_peek(p) == p.tokens[p.current + 1]

Parser_previous(p) ==
    IF p.current = 0 THEN p.tokens[Len(p.tokens)] ELSE p.tokens[p.current]

Parser_is_at_end(p) == Parser_peek(p).type = "EOF"

Parser_check(p, token_type) ==
    IF Parser_is_at_end(p) THEN FALSE ELSE Parser_peek(p).type = token_type

Parser_advance(p) ==
    IF p.exc THEN p
    ELSE IF ~Parser_is_at_end(p) THEN [p EXCEPT !.current = @ + 1] ELSE p

\* _match(*types) is Parser_check_any followed by Parser_advance
Parser_check_any(p, types) == ~p.exc /\ \E t \in types : Parser_check(p, t)

Parser_error(p, token, message) ==
    [p EXCEPT !.errors = Append(@, ParseError(token, message))]

Parser_raise(p, token, message) ==
    [Parser_error(p, token, message) EXCEPT !.exc = TRUE]

Parser_consume(p, token_type, message) ==
    IF p.exc THEN p
    ELSE IF Parser_check(p, token_type) THEN Parser_advance(p)
    ELSE Parser_raise(p, Parser_peek(p), message)

\* a node constructor call: the new object's identity is its index
Parser_new(p, node) ==
    IF p.exc THEN p
    ELSE [p EXCEPT !.nodes = Append(@, [node EXCEPT !.line = Parser_previous(p).line]),
                   !.r = Len(p.nodes) + 1]

\* return ast.X(..)
Parser_return_new(p, node) == Parser_returns(Parser_new(p, node))

RECURSIVE Parser_synchronize_loop(_)
Parser_synchronize_loop(p) ==
    IF ~Parser_is_at_end(p)
    THEN IF Parser_previous(p).type = "SEMICOLON" THEN p
         ELSE IF Parser_peek(p).type \in
                    {"CLASS", "FN", "LET", "FOR", "IF", "WHILE", "PRINT", "RETURN"}
              THEN p
              ELSE Parser_synchronize_loop(Parser_advance(p))
    ELSE p

\* _synchronize without its loop: one token is dropped
Parser_synchronize_once(p) == Parser_advance(p)

\* _synchronize without line 340: no token is dropped before the loop
Parser_synchronize_stay(p) == Parser_synchronize_loop(p)

\* lines 339-350
Parser_synchronize(p) == Parser_synchronize_loop(Parser_advance(p))

\* parse(); the frame's list is `statements`
Parser_parse(p) ==
    LET f == Parser_top(p)
        stmts == IF f.i = 1 /\ p.r # 0 THEN Append(f.list, p.r) ELSE f.list
    IN  IF ~Parser_is_at_end(p)
        THEN Parser_calls(Parser_keep(p, [f EXCEPT !.list = stmts]), 1,
                          Parser_frame("declaration"))
        ELSE Parser_returns([p EXCEPT !.rs = stmts])

\* lines 25-32
Parser_declaration(p) ==
    IF Parser_top(p).i = 1 THEN Parser_returns(p)
    ELSE IF Parser_check(p, "CLASS")
         THEN Parser_calls(Parser_advance(p), 1, Parser_frame("class_declaration"))
    ELSE IF Parser_check(p, "FN")
         THEN Parser_calls(Parser_advance(p), 1,
                           [Parser_frame("function") EXCEPT !.op = "function"])
    ELSE IF Parser_check(p, "LET")
         THEN Parser_calls(Parser_advance(p), 1, Parser_frame("let_declaration"))
    ELSE Parser_calls(p, 1, Parser_frame("statement"))

\* except ParseError: synchronize and return None
Parser_declaration_except(p) ==
    Parser_return(Parser_synchronize([p EXCEPT !.exc = FALSE]), 0)

\* lines 46-50; the frame holds name, superclass (a) and methods (list)
Parser_class_methods(p) ==
    IF p.exc THEN p
    ELSE IF ~Parser_check(p, "RIGHT_BRACE") /\ ~Parser_is_at_end(p)
         THEN Parser_calls(p, 1, [Parser_frame("function") EXCEPT !.op = "method"])
    ELSE Parser_return_new(
             Parser_consume(p, "RIGHT_BRACE", "expected '}' after class body"),
             ClassStmt(Parser_top(p).name, Parser_top(p).a, Parser_top(p).list))

Parser_new_variable(q) == Parser_new(q, VariableExpr(Parser_previous(q).lexeme))

\* lines 38-45
Parser_class_head(p) ==
    LET p1 == Parser_consume(p, "IDENTIFIER", "expected class name")
        p2 == IF ~p1.exc /\ Parser_check(p1, "LESS")
              THEN Parser_new_variable(
                       Parser_consume(Parser_advance(p1), "IDENTIFIER",
                                      "expected superclass name"))
              ELSE [p1 EXCEPT !.r = 0]
    IN  Parser_keep(Parser_consume(p2, "LEFT_BRACE", "expected '{' before class body"),
                    [Parser_top(p) EXCEPT !.name = Parser_previous(p1).lexeme,
                                          !.a = p2.r])

Parser_class_declaration(p) ==
    IF Parser_top(p).i = 0 THEN Parser_class_methods(Parser_class_head(p))
    ELSE Parser_class_methods(
             Parser_keep(p, [Parser_top(p) EXCEPT !.list = Append(@, p.r)]))

\* lines 63-65, p the parser after the parameters
Parser_function_body(p, kind) ==
    Parser_calls(
        Parser_consume(
            Parser_consume(p, "RIGHT_PAREN",
                           "expected ')' after " \o kind \o " parameters"),
            "LEFT_BRACE", "expected '{' before " \o kind \o " body"),
        2, Parser_frame("block_statements"))

\* lines 60-62, p2 the parser after the parameter's name
Parser_params_next(p2, kind) ==
    IF p2.exc THEN p2
    ELSE IF Parser_check(p2, "COMMA")
         THEN Parser_keep(Parser_advance(p2),
                          [Parser_top(p2) EXCEPT
                              !.i = 1, !.list = Append(@, Parser_previous(p2).lexeme)])
         ELSE Parser_function_body(
                  Parser_keep(p2, [Parser_top(p2) EXCEPT
                                      !.list = Append(@, Parser_previous(p2).lexeme)]),
                  kind)

\* lines 58-60 with the error raised
Parser_params_loop_panic(p, kind) ==
    Parser_params_next(
        Parser_consume(IF Len(Parser_top(p).list) >= MaxParams
                       THEN Parser_raise(p, Parser_peek(p),
                                         "cannot have more than 255 parameters")
                       ELSE p,
                       "IDENTIFIER", "expected parameter name"),
        kind)

\* lines 58-60: one turn of the loop over the parameters
Parser_params_loop(p, kind) ==
    Parser_params_next(
        Parser_consume(IF Len(Parser_top(p).list) >= MaxParams
                       THEN Parser_error(p, Parser_peek(p),
                                         "cannot have more than 255 parameters")
                       ELSE p,
                       "IDENTIFIER", "expected parameter name"),
        kind)

\* lines 55-57, p1 the parser after the name, p2 after the parenthesis
Parser_params(p1, p2, kind) ==
    IF p2.exc THEN p2
    ELSE IF ~Parser_check(p2, "RIGHT_PAREN")
         THEN Parser_keep(p2, [Parser_top(p2) EXCEPT
                                  !.i = 1, !.name = Parser_previous(p1).lexeme])
         ELSE Parser_function_body(
                  Parser_keep(p2, [Parser_top(p2) EXCEPT
                                      !.name = Parser_previous(p1).lexeme]),
                  kind)

\* lines 53-54
Parser_function_head(p1, kind) ==
    Parser_params(p1,
                  Parser_consume(p1, "LEFT_PAREN", "expected '(' after " \o kind \o " name"),
                  kind)

\* the frame holds name and params (list); its points are the entry (0), a
\* turn of the loop over the parameters (1) and the return of the body (2)
Parser_function(p) ==
    IF Parser_top(p).i = 0
    THEN Parser_function_head(
             Parser_consume(p, "IDENTIFIER", "expected " \o Parser_top(p).op \o " name"),
             Parser_top(p).op)
    ELSE IF Parser_top(p).i = 1 THEN Parser_params_loop(p, Parser_top(p).op)
    ELSE Parser_return_new(p, FunctionStmt(Parser_top(p).name, Parser_top(p).list, p.rs))

\* lines 73-74
Parser_let_end(p, initializer) ==
    Parser_return_new(
        Parser_consume(p, "SEMICOLON", "expected ';' after variable declaration"),
        LetStmt(Parser_top(p).name, initializer))

\* lines 70-72, p1 the parser after the name
Parser_let_initializer(p1) ==
    IF ~p1.exc /\ Parser_check(p1, "EQUAL")
    THEN Parser_calls(Parser_advance(p1), 1, Parser_frame("expression"))
    ELSE Parser_let_end(p1, 0)

Parser_let_name(p, p1) ==
    Parser_keep(p1, [Parser_top(p) EXCEPT !.name = Parser_previous(p1).lexeme])

Parser_let_declaration(p) ==
    IF Parser_top(p).i = 0
    THEN Parser_let_initializer(
             Parser_let_name(p, Parser_consume(p, "IDENTIFIER", "expected variable name")))
    ELSE Parser_let_end(p, p.r)

Parser_statement(p) ==
    CASE Parser_top(p).i = 1 -> Parser_returns(p)
      [] Parser_top(p).i = 2 -> Parser_return_new(p, BlockStmt(p.rs))
      [] OTHER ->
            IF Parser_check(p, "IF")
            THEN Parser_calls(Parser_advance(p), 1, Parser_frame("if_statement"))
            ELSE IF Parser_check(p, "PRINT")
            THEN Parser_calls(Parser_advance(p), 1, Parser_frame("print_statement"))
            ELSE IF Parser_check(p, "RETURN")
            THEN Parser_calls(Parser_advance(p), 1, Parser_frame("return_statement"))
            ELSE IF Parser_check(p, "WHILE")
            THEN Parser_calls(Parser_advance(p), 1, Parser_frame("while_statement"))
            ELSE IF Parser_check(p, "FOR")
            THEN Parser_calls(Parser_advance(p), 1, Parser_frame("for_statement"))
            ELSE IF Parser_check(p, "LEFT_BRACE")
            THEN Parser_calls(Parser_advance(p), 2, Parser_frame("block_statements"))
            ELSE Parser_calls(p, 1, Parser_frame("expression_statement"))

\* the frame holds condition (a) and then_branch (b)
Parser_if_statement(p) ==
    LET f == Parser_top(p)
    IN  CASE f.i = 0 ->
                Parser_calls(Parser_consume(p, "LEFT_PAREN", "expected '(' after 'if'"),
                             1, Parser_frame("expression"))
          [] f.i = 1 ->
                Parser_calls(
                    Parser_consume(Parser_keep(p, [f EXCEPT !.a = p.r]), "RIGHT_PAREN",
                                   "expected ')' after if condition"),
                    2, Parser_frame("statement"))
          [] f.i = 2 ->
                IF Parser_check(p, "ELSE")
                THEN Parser_calls(Parser_advance(Parser_keep(p, [f EXCEPT !.b = p.r])),
                                  3, Parser_frame("statement"))
                ELSE Parser_return_new(p, IfStmt(f.a, p.r, 0))
          [] f.i = 3 -> Parser_return_new(p, IfStmt(f.a, f.b, p.r))

Parser_print_statement(p) ==
    IF Parser_top(p).i = 0
    THEN Parser_calls(Parser_consume(p, "LEFT_PAREN", "expected '(' after 'print'"),
                      1, Parser_frame("expression"))
    ELSE Parser_return_new(
             Parser_consume(
                 Parser_consume(p, "RIGHT_PAREN", "expected ')' after print argument"),
                 "SEMICOLON", "expected ';' after print statement"),
             PrintStmt(p.r))

\* lines 115-116
Parser_return_end(p, value) ==
    Parser_return_new(Parser_consume(p, "SEMICOLON", "expected ';' after return value"),
                      ReturnStmt(value))

Parser_return_statement(p) ==
    IF Parser_top(p).i = 0
    THEN IF ~Parser_check(p, "SEMICOLON")
         THEN Parser_calls(p, 1, Parser_frame("expression"))
         ELSE Parser_return_end(p, 0)
    ELSE Parser_return_end(p, p.r)

\* the frame holds condition (a)
Parser_while_statement(p) ==
    LET f == Parser_top(p)
    IN  CASE f.i = 0 ->
                Parser_calls(Parser_consume(p, "LEFT_PAREN", "expected '(' after 'while'"),
                             1, Parser_frame("expression"))
          [] f.i = 1 ->
                Parser_calls(
                    Parser_consume(Parser_keep(p, [f EXCEPT !.a = p.r]), "RIGHT_PAREN",
                                   "expected ')' after while condition"),
                    2, Parser_frame("statement"))
          [] f.i = 2 -> Parser_return_new(p, WhileStmt(f.a, p.r))

\* lines 155-158
Parser_for_end(initializer, p10) ==
    IF initializer = 0 THEN p10
    ELSE Parser_new(p10, BlockStmt(<<initializer, p10.r>>))

Parser_for_true(initializer, body, p9) ==
    Parser_for_end(initializer, Parser_new(p9, WhileStmt(p9.r, body)))

\* lines 152-154
Parser_for_while(initializer, condition, p8) ==
    IF condition = 0
    THEN Parser_for_true(initializer, p8.r, Parser_new(p8, LiteralExpr(Bool(TRUE))))
    ELSE Parser_for_end(initializer, Parser_new(p8, WhileStmt(condition, p8.r)))

\* line 151 with the increment put before the body
Parser_for_block_first(body, q) == Parser_new(q, BlockStmt(<<q.r, body>>))

\* line 151, q.r the increment statement
Parser_for_block(body, q) == Parser_new(q, BlockStmt(<<body, q.r>>))

\* lines 150-151, p7.r the body
Parser_for_desugar(initializer, condition, increment, p7) ==
    Parser_for_while(initializer, condition,
        IF increment # 0
        THEN Parser_for_block(p7.r, Parser_new(p7, ExpressionStmt(increment)))
        ELSE p7)

\* lines 145-147
Parser_for_body(p) ==
    Parser_calls(Parser_consume(p, "RIGHT_PAREN", "expected ')' after for clauses"),
                 4, Parser_frame("statement"))

\* lines 142-144
Parser_for_increment(p) ==
    IF ~p.exc /\ ~Parser_check(p, "RIGHT_PAREN")
    THEN Parser_calls(p, 3, Parser_frame("expression"))
    ELSE Parser_for_body(p)

\* lines 137-140
Parser_for_condition(p) ==
    IF ~p.exc /\ ~Parser_check(p, "SEMICOLON")
    THEN Parser_calls(p, 2, Parser_frame("expression"))
    ELSE Parser_for_increment(
             Parser_consume(p, "SEMICOLON", "expected ';' after loop condition"))

\* lines 129-135
Parser_for_initializer(p1) ==
    IF p1.exc THEN p1
    ELSE IF Parser_check(p1, "SEMICOLON") THEN Parser_for_condition(Parser_advance(p1))
    ELSE IF Parser_check(p1, "LET")
         THEN Parser_calls(Parser_advance(p1), 1, Parser_frame("let_declaration"))
    ELSE Parser_calls(p1, 1, Parser_frame("expression_statement"))

\* the frame holds initializer (a), condition (b) and increment (c)
Parser_for_statement(p) ==
    LET f == Parser_top(p)
    IN  CASE f.i = 0 ->
                Parser_for_initializer(
                    Parser_consume(p, "LEFT_PAREN", "expected '(' after 'for'"))
          [] f.i = 1 -> Parser_for_condition(Parser_keep(p, [f EXCEPT !.a = p.r]))
          [] f.i = 2 ->
                Parser_for_increment(
                    Parser_consume(Parser_keep(p, [f EXCEPT !.b = p.r]), "SEMICOLON",
                                   "expected ';' after loop condition"))
          [] f.i = 3 -> Parser_for_body(Parser_keep(p, [f EXCEPT !.c = p.r]))
          [] f.i = 4 -> Parser_returns(Parser_for_desugar(f.a, f.b, f.c, p))

Parser_expression_statement(p) ==
    IF Parser_top(p).i = 0 THEN Parser_calls(p, 1, Parser_frame("expression"))
    ELSE Parser_return_new(Parser_consume(p, "SEMICOLON", "expected ';' after expression"),
                           ExpressionStmt(p.r))

\* the frame's list is `statements`
Parser_block_statements(p) ==
    LET f == Parser_top(p)
        stmts == IF f.i = 1 /\ p.r # 0 THEN Append(f.list, p.r) ELSE f.list
    IN  IF ~Parser_check(p, "RIGHT_BRACE") /\ ~Parser_is_at_end(p)
        THEN Parser_calls(Parser_keep(p, [f EXCEPT !.list = stmts]), 1,
                          Parser_frame("declaration"))
        ELSE Parser_returns(
                 [Parser_consume(p, "RIGHT_BRACE", "expected '}' after block")
                      EXCEPT !.rs = stmts])

Parser_expression(p) ==
    IF Parser_top(p).i = 0 THEN Parser_calls(p, 1, Parser_frame("assignment"))
    ELSE Parser_returns(p)

\* lines 186-192, p3.r the value
Parser_assignment_value(expr, equals, p3) ==
    IF p3.nodes[expr].type = "Variable"
    THEN Parser_new(p3, AssignExpr(p3.nodes[expr].name, p3.r))
    ELSE IF p3.nodes[expr].type = "Get"
         THEN Parser_new(p3, SetExpr(p3.nodes[expr].a, p3.nodes[expr].name, p3.r))
    ELSE [Parser_error(p3, equals, "invalid assignment target") EXCEPT !.r = expr]

\* the frame holds expr (a) and the position of `equals` (c)
Parser_assignment(p) ==
    LET f == Parser_top(p)
    IN  CASE f.i = 0 -> Parser_calls(p, 1, Parser_frame("or"))
          [] f.i = 1 ->
                IF Parser_check(p, "EQUAL")
                THEN Parser_calls(
                         Parser_advance(
                             Parser_keep(p, [f EXCEPT !.a = p.r, !.c = p.current + 1])),
                         2, Parser_frame("assignment"))
                ELSE Parser_returns(p)
          [] f.i = 2 -> Parser_returns(Parser_assignment_value(f.a, p.tokens[f.c], p))

\* _or, _and, _equality, _comparison, _term, _factor: levels 1..6, each a
\* loop over its operators with the next level as operand
Levels == <<"or", "and", "equality", "comparison", "term", "factor">>

BinaryOps(level) ==
    CASE level = 1 -> {"OR"}
      [] level = 2 -> {"AND"}
      [] level = 3 -> {"BANG_EQUAL", "EQUAL_EQUAL"}
      [] level = 4 -> {"GREATER", "GREATER_EQUAL", "LESS", "LESS_EQUAL"}
      [] level = 5 -> {"MINUS", "PLUS"}
      [] level = 6 -> {"SLASH", "STAR", "PERCENT"}

Parser_operand(level) ==
    Parser_frame(IF level = 6 THEN "unary" ELSE Levels[level + 1])

\* the while loop; the frame holds expr (a) and operator (op)
Parser_binary_loop(p, level) ==
    IF Parser_check_any(p, BinaryOps(level))
    THEN Parser_calls(
             Parser_advance(
                 Parser_keep(p, [Parser_top(p) EXCEPT !.op = Parser_peek(p).type])),
             2, Parser_operand(level))
    ELSE Parser_return(p, Parser_top(p).a)

\* expr = ast.BinaryExpr(expr, operator, right), or ast.LogicalExpr
Parser_binary_new(p, q) == Parser_keep(q, [Parser_top(p) EXCEPT !.a = q.r])

Parser_binary_right(p, level) ==
    Parser_binary_new(p,
        Parser_new(p, IF level <= 2
                      THEN LogicalExpr(Parser_top(p).a, Parser_top(p).op, p.r)
                      ELSE BinaryExpr(Parser_top(p).a, Parser_top(p).op, p.r)))

Parser_binary(p, level) ==
    CASE Parser_top(p).i = 0 -> Parser_calls(p, 1, Parser_operand(level))
      [] Parser_top(p).i = 1 ->
            Parser_binary_loop(Parser_keep(p, [Parser_top(p) EXCEPT !.a = p.r]), level)
      [] Parser_top(p).i = 2 -> Parser_binary_loop(Parser_binary_right(p, level), level)

Parser_or(p) == Parser_binary(p, 1)
Parser_and(p) == Parser_binary(p, 2)
Parser_equality(p) == Parser_binary(p, 3)
Parser_comparison(p) == Parser_binary(p, 4)
Parser_term(p) == Parser_binary(p, 5)
Parser_factor(p) == Parser_binary(p, 6)

\* the frame holds operator (op)
Parser_unary(p) ==
    LET f == Parser_top(p)
    IN  CASE f.i = 0 ->
                IF Parser_check_any(p, {"BANG", "MINUS"})
                THEN Parser_calls(
                         Parser_advance(Parser_keep(p, [f EXCEPT !.op = Parser_peek(p).type])),
                         1, Parser_frame("unary"))
                ELSE Parser_calls(p, 2, Parser_frame("call"))
          [] f.i = 1 -> Parser_return_new(p, UnaryExpr(f.op, p.r))
          [] f.i = 2 -> Parser_returns(p)

\* lines 257-258, p1 the parser after the property name
Parser_call_get(p1, q) == Parser_keep(q, [Parser_top(p1) EXCEPT !.a = q.r])

Parser_call_property(p1) ==
    Parser_call_get(p1,
        Parser_new(p1, GetExpr(Parser_top(p1).a, Parser_previous(p1).lexeme)))

\* the while loop; the frame holds expr (a)
RECURSIVE Parser_call_loop(_)
Parser_call_loop(p) ==
    IF p.exc THEN p
    ELSE IF Parser_check(p, "LEFT_PAREN")
         THEN Parser_calls(Parser_advance(p), 1,
                           [Parser_frame("finish_call") EXCEPT !.a = Parser_top(p).a])
    ELSE IF Parser_check(p, "DOT")
         THEN Parser_call_loop(
                  Parser_call_property(
                      Parser_consume(Parser_advance(p), "IDENTIFIER",
                                     "expected property name after '.'")))
    ELSE Parser_return(p, Parser_top(p).a)

Parser_call(p) ==
    IF Parser_top(p).i = 0 THEN Parser_calls(p, 1, Parser_frame("primary"))
    ELSE Parser_call_loop(Parser_keep(p, [Parser_top(p) EXCEPT !.a = p.r]))

\* lines 268-270
Parser_argument(p) ==
    Parser_calls(IF Len(Parser_top(p).list) >= MaxArguments
                 THEN Parser_error(p, Parser_peek(p), "cannot have more than 255 arguments")
                 ELSE p,
                 1, Parser_frame("expression"))

\* lines 273-274
Parser_finish_call_end(p) ==
    Parser_return_new(Parser_consume(p, "RIGHT_PAREN", "expected ')' after arguments"),
                      CallExpr(Parser_top(p).a, Parser_top(p).list))

\* lines 270-272, q the parser with the argument appended
Parser_arguments_next(q) ==
    IF Parser_check(q, "COMMA") THEN Parser_argument(Parser_advance(q))
    ELSE Parser_finish_call_end(q)

\* the frame holds callee (a) and arguments (list)
Parser_finish_call(p) ==
    IF Parser_top(p).i = 0
    THEN IF ~Parser_check(p, "RIGHT_PAREN") THEN Parser_argument(p)
         ELSE Parser_finish_call_end(p)
    ELSE Parser_arguments_next(
             Parser_keep(p, [Parser_top(p) EXCEPT !.list = Append(@, p.r)]))

\* line 291, p2 the parser after the method name
Parser_primary_super(p2) ==
    Parser_return_new(p2, SuperExpr(Parser_previous(p2).lexeme))

Parser_primary(p) ==
    IF Parser_top(p).i = 1
    THEN Parser_return_new(
             Parser_consume(p, "RIGHT_PAREN", "expected ')' after expression"),
             GroupingExpr(p.r))
    ELSE IF Parser_check(p, "FALSE")
         THEN Parser_return_new(Parser_advance(p), LiteralExpr(Bool(FALSE)))
    ELSE IF Parser_check(p, "TRUE")
         THEN Parser_return_new(Parser_advance(p), LiteralExpr(Bool(TRUE)))
    ELSE IF Parser_check(p, "NIL")
         THEN Parser_return_new(Parser_advance(p), LiteralExpr(Nil))
    ELSE IF Parser_check_any(p, {"NUMBER", "STRING"})
         THEN Parser_return_new(Parser_advance(p), LiteralExpr(Parser_peek(p).literal))
    ELSE IF Parser_check(p, "THIS") THEN Parser_return_new(Parser_advance(p), ThisExpr)
    ELSE IF Parser_check(p, "SUPER")
         THEN Parser_primary_super(
                  Parser_consume(
                      Parser_consume(Parser_advance(p), "DOT", "expected '.' after 'super'"),
                      "IDENTIFIER", "expected superclass method name"))
    ELSE IF Parser_check(p, "IDENTIFIER")
         THEN Parser_return_new(Parser_advance(p), VariableExpr(Parser_peek(p).lexeme))
    ELSE IF Parser_check(p, "LEFT_PAREN")
         THEN Parser_calls(Parser_advance(p), 1, Parser_frame("expression"))
    ELSE Parser_raise(p, Parser_peek(p), "expected expression")

-----------------------------------------------------------------------------
(* resolver.py.  A resolver is the record of the Resolver object's fields; *)
(* nodes is the AST heap it reads and locals the Interpreter._locals table *)
(* it writes through interpreter.resolve(); resolved is the set of the      *)
(* expressions it has written an entry for, kept for the properties.       *)

Resolver(heap, table) ==
    [scopes |-> <<>>, current_function |-> "NONE", current_class |-> "NONE",
     errors |-> <<>>, nodes |-> heap, locals |-> table, resolved |-> {},
     stack |-> <<>>]

ResolveError(r, msg) == [r EXCEPT !.errors = Append(@, msg)]

\* Interpreter.resolve
Interpreter_resolve(table, expr, depth) == (expr :> depth) @@ table

Resolver_begin_scope(r) == [r EXCEPT !.scopes = Append(@, <<>>)]

Resolver_end_scope(r) == [r EXCEPT !.scopes = SubSeq(@, 1, Len(@) - 1)]

\* self.scopes[-1][name] = value
Resolver_put(r, name, value) ==
    [r EXCEPT !.scopes[Len(r.scopes)] = (name :> value) @@ @]

Resolver_declare(r, name) ==
    IF r.scopes = <<>> THEN r
    ELSE LET r1 == IF name \in DOMAIN r.scopes[Len(r.scopes)]
                   THEN ResolveError(r, "variable already declared in this scope")
                   ELSE r
         IN  Resolver_put(r1, name, FALSE)

Resolver_define(r, name) ==
    IF r.scopes = <<>> THEN r ELSE Resolver_put(r, name, TRUE)

\* _resolve_local counting the depth from the outermost scope
Resolver_resolve_local_outermost(r, expr, name) ==
    LET found == {i \in 1..Len(r.scopes) : name \in DOMAIN r.scopes[i]}
    IN  IF found = {} THEN r
        ELSE LET i == CHOOSE k \in found : \A j \in found : j <= k
             IN  [r EXCEPT !.locals = Interpreter_resolve(@, expr, i - 1),
                           !.resolved = @ \cup {expr}]

Resolver_resolve_local(r, expr, name) ==
    LET found == {i \in 1..Len(r.scopes) : name \in DOMAIN r.scopes[i]}
    IN  IF found = {} THEN r
        ELSE LET i == CHOOSE k \in found : \A j \in found : j <= k
             IN  [r EXCEPT !.locals = Interpreter_resolve(@, expr, Len(r.scopes) - i),
                           !.resolved = @ \cup {expr}]

\* The Python call stack of the resolver: a frame is one active call, f the
\* method ("resolve", "stmt", "expr", "function"), node its argument (list
\* for resolve), i the point it has reached, kind the fn_type argument and
\* enclosing the local of that name.
Resolver_frame(f, node) ==
    [f |-> f, node |-> node, i |-> 0, list |-> <<>>, kind |-> "", enclosing |-> ""]

Resolver_top(r) == r.stack[Len(r.stack)]

Resolver_keep(r, f) == [r EXCEPT !.stack[Len(r.stack)] = f]

\* the active call calls g and goes on at point i when g returns
Resolver_calls(r, i, g) ==
    [r EXCEPT !.stack = Append([r.stack EXCEPT ![Len(r.stack)].i = i], g)]

Resolver_returns(r) == [r EXCEPT !.stack = SubSeq(@, 1, Len(@) - 1)]

Resolver_stmt(stmt) == Resolver_frame("stmt", stmt)
Resolver_expr(expr) == Resolver_frame("expr", expr)
Resolver_statements(stmts) == [Resolver_frame("resolve", 0) EXCEPT !.list = stmts]
Resolver_function(function, fn_type) ==
    [Resolver_frame("function", function) EXCEPT !.kind = fn_type]

\* resolve(statements); i is how many statements are done
Resolver_resolve(r) ==
    LET f == Resolver_top(r)
    IN  IF f.i < Len(f.list)
        THEN Resolver_calls(r, f.i + 1, Resolver_stmt(f.list[f.i + 1]))
        ELSE Resolver_returns(r)

\* lines 94-103; i - 2 is how many methods are done
Resolver_class_methods(r) ==
    LET f == Resolver_top(r)
        n == r.nodes[f.node]
        method == n.list[f.i - 1]
        ft == IF r.nodes[method].name = "init" THEN "INITIALIZER" ELSE "METHOD"
        r5 == Resolver_end_scope(r)
        r6 == IF n.a # 0 THEN Resolver_end_scope(r5) ELSE r5
    IN  IF f.i - 2 < Len(n.list)
        THEN Resolver_calls(r, f.i + 1, Resolver_function(method, ft))
        ELSE Resolver_returns([r6 EXCEPT !.current_class = f.enclosing])

\* lines 91-92
Resolver_class_this(r) ==
    Resolver_class_methods(
        Resolver_keep(Resolver_put(Resolver_begin_scope(r), "this", TRUE),
                      [Resolver_top(r) EXCEPT !.i = 2]))

\* lines 76-87
Resolver_class_head(r) ==
    LET f == Resolver_top(r)
        n == r.nodes[f.node]
        r1 == Resolver_define(
                  Resolver_declare(
                      Resolver_keep([r EXCEPT !.current_class = "CLASS"],
                                    [f EXCEPT !.enclosing = r.current_class]),
                      n.name),
                  n.name)
        q1 == IF r.nodes[n.a].name = n.name
              THEN ResolveError(r1, "a class cannot inherit from itself")
              ELSE r1
    IN  IF n.a # 0
        THEN Resolver_calls([q1 EXCEPT !.current_class = "SUBCLASS"], 1, Resolver_expr(n.a))
        ELSE Resolver_class_this(r1)

Resolver_resolve_class(r) ==
    CASE Resolver_top(r).i = 0 -> Resolver_class_head(r)
      [] Resolver_top(r).i = 1 ->
            Resolver_class_this(Resolver_put(Resolver_begin_scope(r), "super", TRUE))
      [] OTHER -> Resolver_class_methods(r)

\* the Return case without the INITIALIZER check
Resolver_resolve_return_unchecked(r, stmt) ==
    LET n == r.nodes[stmt]
        r1 == IF r.current_function = "NONE"
              THEN ResolveError(r, "cannot return from top-level code")
              ELSE r
    IN  IF n.a # 0 THEN Resolver_calls(r1, 1, Resolver_expr(n.a)) ELSE Resolver_returns(r1)

\* the Return case without the top-level check
Resolver_resolve_return_anywhere(r, stmt) ==
    LET n == r.nodes[stmt]
    IN  IF n.a # 0
        THEN Resolver_calls(
                 IF r.current_function = "INITIALIZER"
                 THEN ResolveError(r, "cannot return a value from an initializer")
                 ELSE r,
                 1, Resolver_expr(n.a))
        ELSE Resolver_returns(r)

\* lines 64-71
Resolver_resolve_return(r, stmt) ==
    LET n == r.nodes[stmt]
        r1 == IF r.current_function = "NONE"
              THEN ResolveError(r, "cannot return from top-level code")
              ELSE r
    IN  IF n.a # 0
        THEN Resolver_calls(
                 IF r1.current_function = "INITIALIZER"
                 THEN ResolveError(r1, "cannot return a value from an initializer")
                 ELSE r1,
                 1, Resolver_expr(n.a))
        ELSE Resolver_returns(r1)

\* lines 46-49
Resolver_resolve_let(r, n) ==
    IF n.a # 0
    THEN Resolver_calls(Resolver_declare(r, n.name), 1, Resolver_expr(n.a))
    ELSE Resolver_returns(Resolver_define(Resolver_declare(r, n.name), n.name))

Resolver_resolve_stmt(r) ==
    LET f == Resolver_top(r)
        n == r.nodes[f.node]
    IN  CASE n.type = "Block" ->
                IF f.i = 0
                THEN Resolver_calls(Resolver_begin_scope(r), 1, Resolver_statements(n.list))
                ELSE Resolver_returns(Resolver_end_scope(r))
          [] n.type = "Let" ->
                IF f.i = 0 THEN Resolver_resolve_let(r, n)
                ELSE Resolver_returns(Resolver_define(r, n.name))
          [] n.type = "Function" ->
                IF f.i = 0
                THEN Resolver_calls(Resolver_define(Resolver_declare(r, n.name), n.name),
                                    1, Resolver_function(f.node, "FUNCTION"))
                ELSE Resolver_returns(r)
          [] n.type \in {"Expression", "Print"} ->
                IF f.i = 0 THEN Resolver_calls(r, 1, Resolver_expr(n.a))
                ELSE Resolver_returns(r)
          [] n.type = "If" ->
                CASE f.i = 0 -> Resolver_calls(r, 1, Resolver_expr(n.a))
                  [] f.i = 1 -> Resolver_calls(r, 2, Resolver_stmt(n.b))
                  [] f.i = 2 /\ n.c # 0 -> Resolver_calls(r, 3, Resolver_stmt(n.c))
                  [] OTHER -> Resolver_returns(r)
          [] n.type = "Return" ->
                IF f.i = 0 THEN Resolver_resolve_return(r, f.node)
                ELSE Resolver_returns(r)
          [] n.type = "While" ->
                CASE f.i = 0 -> Resolver_calls(r, 1, Resolver_expr(n.a))
                  [] f.i = 1 -> Resolver_calls(r, 2, Resolver_stmt(n.b))
                  [] OTHER -> Resolver_returns(r)
          [] n.type = "Class" -> Resolver_resolve_class(r)

\* lines 108-112
Resolver_resolve_variable(r, expr) ==
    LET name == r.nodes[expr].name
        top == r.scopes[Len(r.scopes)]
        r1 == IF r.scopes # <<>> /\ name \in DOMAIN top /\ top[name] = FALSE
              THEN ResolveError(r, "cannot read variable in its own initializer")
              ELSE r
    IN  Resolver_resolve_local(r1, expr, name)

\* lines 138-142
Resolver_resolve_this(r, expr) ==
    Resolver_resolve_local(
        IF r.current_class = "NONE"
        THEN ResolveError(r, "cannot use 'this' outside of a class")
        ELSE r, expr, "this")

\* lines 144-152
Resolver_resolve_super(r, expr) ==
    Resolver_resolve_local(
        IF r.current_class = "NONE"
        THEN ResolveError(r, "cannot use 'super' outside of a class")
        ELSE IF r.current_class # "SUBCLASS"
        THEN ResolveError(r, "cannot use 'super' in a class with no superclass")
        ELSE r, expr, "super")

Resolver_resolve_expr(r) ==
    LET f == Resolver_top(r)
        n == r.nodes[f.node]
    IN  CASE n.type = "Variable" -> Resolver_returns(Resolver_resolve_variable(r, f.node))
          [] n.type = "Assign" ->
                IF f.i = 0 THEN Resolver_calls(r, 1, Resolver_expr(n.a))
                ELSE Resolver_returns(Resolver_resolve_local(r, f.node, n.name))
          [] n.type \in {"Binary", "Logical"} ->
                CASE f.i = 0 -> Resolver_calls(r, 1, Resolver_expr(n.a))
                  [] f.i = 1 -> Resolver_calls(r, 2, Resolver_expr(n.b))
                  [] OTHER -> Resolver_returns(r)
          [] n.type \in {"Unary", "Get", "Grouping"} ->
                IF f.i = 0 THEN Resolver_calls(r, 1, Resolver_expr(n.a))
                ELSE Resolver_returns(r)
          [] n.type = "Call" ->
                \* i - 1 is how many arguments are done
                CASE f.i = 0 -> Resolver_calls(r, 1, Resolver_expr(n.a))
                  [] f.i > 0 /\ f.i - 1 < Len(n.list) ->
                        Resolver_calls(r, f.i + 1, Resolver_expr(n.list[f.i]))
                  [] OTHER -> Resolver_returns(r)
          [] n.type = "Set" ->
                CASE f.i = 0 -> Resolver_calls(r, 1, Resolver_expr(n.b))
                  [] f.i = 1 -> Resolver_calls(r, 2, Resolver_expr(n.a))
                  [] OTHER -> Resolver_returns(r)
          [] n.type = "Literal" -> Resolver_returns(r)
          [] n.type = "This" -> Resolver_returns(Resolver_resolve_this(r, f.node))
          [] n.type = "Super" -> Resolver_returns(Resolver_resolve_super(r, f.node))

\* lines 158-160: declare and define each parameter, the list taken by halves
RECURSIVE Resolver_params(_, _)
Resolver_params(r, params) ==
    IF r.scopes = <<>> \/ params = <<>> THEN r
    ELSE IF Len(params) = 1
         THEN Resolver_define(Resolver_declare(r, params[1]), params[1])
    ELSE Resolver_params(Resolver_params(r, SubSeq(params, 1, Len(params) \div 2)),
                         SubSeq(params, Len(params) \div 2 + 1, Len(params)))

\* lines 155-160
Resolver_function_head(r) ==
    LET f == Resolver_top(r)
    IN  Resolver_params(
            Resolver_begin_scope(
                Resolver_keep([r EXCEPT !.current_function = f.kind],
                              [f EXCEPT !.enclosing = r.current_function])),
            r.nodes[f.node].params)

\* _resolve_function without line 163: the register keeps the nested kind
Resolver_resolve_function_kept(r) ==
    IF Resolver_top(r).i = 0
    THEN Resolver_calls(Resolver_function_head(r), 1,
                        Resolver_statements(r.nodes[Resolver_top(r).node].list))
    ELSE Resolver_returns(Resolver_end_scope(r))

\* lines 154-163
Resolver_resolve_function(r) ==
    IF Resolver_top(r).i = 0
    THEN Resolver_calls(Resolver_function_head(r), 1,
                        Resolver_statements(r.nodes[Resolver_top(r).node].list))
    ELSE Resolver_returns(
             [Resolver_end_scope(r) EXCEPT !.current_function = Resolver_top(r).enclosing])

-----------------------------------------------------------------------------
(* The evaluator's machine.  M is the Interpreter object together with the *)
(* heaps and the Python call stack; the operators below map one machine    *)
(* to the next.  A frame of kont is one active Python call:                *)
(*   interpret   Interpreter.interpret, i the next statement               *)
(*   execute     Interpreter._execute(node), i the point reached in it     *)
(*   block       Interpreter._execute_block(list, ..), previous its local  *)
(*   evaluate    Interpreter._evaluate(node), vals the operands so far     *)
(*   call        RiftFunction.call of function x                           *)
(*   class_call  RiftClass.call, x the instance being initialised          *)

M ==
    [envs |-> envs, environment |-> environment, functions |-> functions,
     classes |-> classes, instances |-> instances, kont |-> kont, mode |-> mode,
     acc |-> acc, output |-> output, nodes |-> nodes, locals |-> locals,
     statements |-> statements]

Frame(k, node, i) ==
    [k |-> k, node |-> node, i |-> i, vals |-> <<>>, list |-> <<>>,
     previous |-> 0, x |-> 0]

Top(m) == m.kont[Len(m.kont)]
Pop(m) == [m EXCEPT !.kont = SubSeq(@, 1, Len(@) - 1)]
Push(m, f) == [m EXCEPT !.kont = Append(@, f)]
Replace(m, f) == [m EXCEPT !.kont[Len(m.kont)] = f]
\* the active call moves to its next point and calls f
Descend(m, f) == Push([m EXCEPT !.kont[Len(m.kont)].i = @ + 1], f)
\* the active call returns v
Value(m, v) == [Pop(m) EXCEPT !.acc = v]
\* raise RiftRuntimeError(token, msg)
RuntimeError(m, msg) == [m EXCEPT !.mode = "error", !.acc = Str(msg)]
\* any other Python exception: AssertionError, KeyError, ValueError
Crash(m, what) == [m EXCEPT !.mode = "crash", !.acc = Str(what)]

GLOBALS == 1
EmptyDict == <<>>

-----------------------------------------------------------------------------
(* environment.py                                                          *)

Environment(m, enclosing) ==
    [m EXCEPT !.envs = Append(@, [values |-> EmptyDict, enclosing |-> enclosing])]

Environment_define(m, e, name, value) ==
    [m EXCEPT !.envs[e].values = (name :> value) @@ @]

\* 0 when the chain ends first (the assertion in _ancestor fails)
RECURSIVE Environment_ancestor(_, _, _)
Environment_ancestor(es, e, distance) ==
    IF distance <= 0 \/ e = 0 THEN e
    ELSE Environment_ancestor(es, es[e].enclosing, distance - 1)

Environment_get_at(es, e, distance, name) ==
    LET a == Environment_ancestor(es, e, distance)
    IN  IF a = 0 THEN [ok |-> FALSE, v |-> Str("AssertionError")]
        ELSE IF name \notin DOMAIN es[a].values THEN [ok |-> FALSE, v |-> Str("KeyError")]
        ELSE [ok |-> TRUE, v |-> es[a].values[name]]

\* assign_at writing into the current frame, as a closure over values would
Environment_assign_at_current(m, e, distance, name, value) ==
    Environment_define(m, e, name, value)

Environment_assign_at(m, e, distance, name, value) ==
    LET a == Environment_ancestor(m.envs, e, distance)
    IN  IF a = 0 THEN Crash(m, "AssertionError")
        ELSE Environment_define(m, a, name, value)

RECURSIVE Environment_get(_, _, _)
Environment_get(es, e, name) ==
    IF name \in DOMAIN es[e].values THEN [ok |-> TRUE, v |-> es[e].values[name]]
    ELSE IF es[e].enclosing # 0 THEN Environment_get(es, es[e].enclosing, name)
    ELSE [ok |-> FALSE, v |-> Str("undefined variable")]

\* assign() that defines the name in the last frame instead of raising
RECURSIVE Environment_assign_implicit(_, _, _, _)
Environment_assign_implicit(m, e, name, value) ==
    IF name \in DOMAIN m.envs[e].values THEN Environment_define(m, e, name, value)
    ELSE IF m.envs[e].enclosing # 0
         THEN Environment_assign_implicit(m, m.envs[e].enclosing, name, value)
    ELSE Environment_define(m, e, name, value)

RECURSIVE Environment_assign(_, _, _, _)
Environment_assign(m, e, name, value) ==
    IF name \in DOMAIN m.envs[e].values THEN Environment_define(m, e, name, value)
    ELSE IF m.envs[e].enclosing # 0 THEN Environment_assign(m, m.envs[e].enclosing, name, value)
    ELSE RuntimeError(m, "undefined variable")

-----------------------------------------------------------------------------
(* stdlib.py                                                               *)

RECURSIVE NatToStr(_)
NatToStr(n) ==
    IF n < 10 THEN DigitChars[n + 1]
    ELSE NatToStr(n \div 10) \o DigitChars[(n % 10) + 1]

stringify(m, value) ==
    CASE value.t = "nil" -> "nil"
      [] value.t = "bool" -> IF value.n = 1 THEN "true" ELSE "false"
      [] value.t = "num" ->
            (IF value.n < 0 THEN "-" \o NatToStr(-value.n) ELSE NatToStr(value.n))
            \o (IF value.s = "" THEN "" ELSE "." \o value.s)
      [] value.t = "str" -> value.s
      [] value.t = "fn" -> "<fn " \o m.nodes[m.functions[value.n].declaration].name \o ">"
      [] value.t = "class" -> "<class " \o m.classes[value.n].name \o ">"
      [] value.t = "inst" -> "<" \o m.classes[m.instances[value.n].klass].name \o " instance>"
      [] value.t = "native" -> "<native fn " \o value.s \o ">"

type_fn(m, value) ==
    CASE value.t = "nil" -> "nil"
      [] value.t = "bool" -> "bool"
      [] value.t = "num" -> "number"
      [] value.t = "str" -> "string"
      [] value.t = "inst" -> m.classes[m.instances[value.n].klass].name
      [] OTHER -> "function"

\* the strings float() accepts, among those the programs can build
Parsable == ("7" :> 7) @@ ("12" :> 12)

NativeArity == [clock |-> 0, len |-> 1, str |-> 1, num |-> 1, input |-> 1, type |-> 1]

define_natives(values) ==
    [name \in DOMAIN NativeArity |-> NativeVal(name)] @@ values

\* NativeFunction.call; world is what the host answers to clock() and input()
NativeFunction_call(m, name, arguments, world) ==
    CASE name = "clock" -> Value(m, Num(world.now))
      [] name = "len" ->
            IF arguments[1].t = "str" THEN Value(m, Num(Len(arguments[1].s)))
            ELSE Crash(m, "ValueError")
      [] name = "str" -> Value(m, Str(stringify(m, arguments[1])))
      [] name = "num" ->
            IF arguments[1].t = "str" /\ arguments[1].s \in DOMAIN Parsable
            THEN Value(m, Num(Parsable[arguments[1].s]))
            ELSE Crash(m, "ValueError")
      [] name = "input" ->
            LET m1 == [m EXCEPT !.output = Append(@, stringify(m, arguments[1]))]
            IN  IF world.eof THEN Crash(m1, "EOFError") ELSE Value(m1, Str(world.line))
      [] name = "type" -> Value(m, Str(type_fn(m, arguments[1])))

-----------------------------------------------------------------------------
(* callable.py, instance.py                                                *)

RiftFunction(m, declaration, closure, is_initializer) ==
    [m EXCEPT !.functions =
        Append(@, [declaration |-> declaration, closure |-> closure,
                   is_initializer |-> is_initializer])]

RiftFunction_arity(m, fn) == Len(m.nodes[m.functions[fn].declaration].params)

\* bind() returning a copy of the method with no frame for "this"
RiftFunction_bind_unbound(m, fn, instance) ==
    RiftFunction(m, m.functions[fn].declaration, m.functions[fn].closure,
                 m.functions[fn].is_initializer)

\* the bound function is the last one allocated
RiftFunction_bind(m, fn, instance) ==
    LET f == m.functions[fn]
        m1 == Environment(m, f.closure)
        m2 == Environment_define(m1, Len(m1.envs), "this", InstVal(instance))
    IN  RiftFunction(m2, f.declaration, Len(m1.envs), f.is_initializer)

RECURSIVE RiftClass_find_method(_, _, _)
RiftClass_find_method(cs, c, name) ==
    IF name \in DOMAIN cs[c].methods THEN cs[c].methods[name]
    ELSE IF cs[c].superclass # 0 THEN RiftClass_find_method(cs, cs[c].superclass, name)
    ELSE 0

\* arity() looking for init in the class's own methods only
RiftClass_arity_own(m, c) ==
    IF "init" \in DOMAIN m.classes[c].methods
    THEN RiftFunction_arity(m, m.classes[c].methods["init"])
    ELSE 0

RiftClass_arity(m, c) ==
    LET initializer == RiftClass_find_method(m.classes, c, "init")
    IN  IF initializer # 0 THEN RiftFunction_arity(m, initializer) ELSE 0

\* _execute_block up to its first statement: previous is saved, the pointer moved
Interpreter_execute_block(m, stmts, env) ==
    [Push(m, [Frame("block", 0, 1) EXCEPT !.list = stmts, !.previous = m.environment])
        EXCEPT !.environment = env]

RECURSIVE DefineParams(_, _, _, _)
DefineParams(m, env, params, arguments) ==
    IF params = <<>> \/ arguments = <<>> THEN m
    ELSE DefineParams(Environment_define(m, env, Head(params), Head(arguments)),
                      env, Tail(params), Tail(arguments))

\* RiftFunction.call with the new frame enclosed by the caller's frame
RiftFunction_call_dynamic(m, fn, arguments) ==
    LET f == m.functions[fn]
        m1 == Environment(m, m.environment)
        env == Len(m1.envs)
        m2 == DefineParams(m1, env, m.nodes[f.declaration].params, arguments)
        m3 == Push(m2, [Frame("call", f.declaration, 0) EXCEPT !.x = fn])
    IN  Interpreter_execute_block(m3, m.nodes[f.declaration].list, env)

\* RiftFunction.call up to the first statement of the body
RiftFunction_call(m, fn, arguments) ==
    LET f == m.functions[fn]
        m1 == Environment(m, f.closure)
        env == Len(m1.envs)
        m2 == DefineParams(m1, env, m.nodes[f.declaration].params, arguments)
        m3 == Push(m2, [Frame("call", f.declaration, 0) EXCEPT !.x = fn])
    IN  Interpreter_execute_block(m3, m.nodes[f.declaration].list, env)

\* RiftFunction.call without the is_initializer cases
RiftFunction_result_plain(m, fn, v) == [Value(m, v) EXCEPT !.mode = "run"]

\* what RiftFunction.call returns for result v (None on fall-through)
RiftFunction_result(m, fn, v) ==
    LET f == m.functions[fn]
        this == Environment_get_at(m.envs, f.closure, 0, "this")
    IN  IF f.is_initializer
        THEN IF this.ok THEN [Value(m, this.v) EXCEPT !.mode = "run"]
             ELSE Crash(Pop(m), "KeyError")
        ELSE [Value(m, v) EXCEPT !.mode = "run"]

\* RiftClass.call up to the first statement of init, or to its return
RiftClass_call(m, c, arguments) ==
    LET m1 == [m EXCEPT !.instances = Append(@, [klass |-> c, fields |-> EmptyDict])]
        instance == Len(m1.instances)
        initializer == RiftClass_find_method(m.classes, c, "init")
    IN  IF initializer # 0
        THEN LET m2 == RiftFunction_bind(m1, initializer, instance)
                 m3 == Replace(m2, [Frame("class_call", 0, 0) EXCEPT !.x = instance])
             IN  RiftFunction_call(m3, Len(m2.functions), arguments)
        ELSE Value(m1, InstVal(instance))

RiftInstance_get(m, instance, name) ==
    LET i == m.instances[instance]
        method == RiftClass_find_method(m.classes, i.klass, name)
    IN  IF name \in DOMAIN i.fields THEN Value(m, i.fields[name])
        ELSE IF method # 0
             THEN LET m1 == RiftFunction_bind(m, method, instance)
                  IN  Value(m1, FnVal(Len(m1.functions)))
        ELSE RuntimeError(m, "undefined property")

RiftInstance_set(m, instance, name, value) ==
    [m EXCEPT !.instances[instance].fields = (name :> value) @@ @]

-----------------------------------------------------------------------------
(* interpreter.py                                                          *)

Interpreter_is_truthy(value) ==
    IF value.t = "nil" THEN FALSE
    ELSE IF value.t = "bool" THEN value.n = 1
    ELSE TRUE

\* Python's a == b: bool is a number there (True == 1.0), objects compare by identity
Interpreter_is_equal(a, b) ==
    IF a.t \in {"bool", "num"} /\ b.t \in {"bool", "num"}
    THEN a.n = b.n /\ a.s = b.s
    ELSE a = b

\* _lookup_variable without the depth table: the name is looked for from
\* the current frame outwards
Interpreter_lookup_variable_dynamic(m, name, expr) ==
    LET got == Environment_get(m.envs, m.environment, name)
    IN  IF got.ok THEN Value(m, got.v) ELSE RuntimeError(m, got.v.s)

\* lines 220-224
Interpreter_lookup_variable(m, name, expr) ==
    IF expr \in DOMAIN m.locals
    THEN LET got == Environment_get_at(m.envs, m.environment, m.locals[expr], name)
         IN  IF got.ok THEN Value(m, got.v) ELSE Crash(m, got.v.s)
    ELSE LET got == Environment_get(m.envs, GLOBALS, name)
         IN  IF got.ok THEN Value(m, got.v) ELSE RuntimeError(m, got.v.s)

PyMod(a, b) == IF b > 0 THEN a % b ELSE -((-a) % (-b))

Interpreter_eval_binary(m, op, left, right) ==
    LET numbers == left.t = "num" /\ right.t = "num"
    IN  CASE op = "PLUS" ->
                IF numbers THEN Value(m, Num(left.n + right.n))
                ELSE IF left.t = "str" /\ right.t = "str" THEN Value(m, Str(left.s \o right.s))
                ELSE RuntimeError(m, "operands must be two numbers or two strings")
          [] op = "EQUAL_EQUAL" -> Value(m, Bool(Interpreter_is_equal(left, right)))
          [] op = "BANG_EQUAL" -> Value(m, Bool(~Interpreter_is_equal(left, right)))
          [] OTHER ->
                IF ~numbers THEN RuntimeError(m, "operands must be numbers")
                ELSE CASE op = "MINUS" -> Value(m, Num(left.n - right.n))
                       [] op = "STAR" -> Value(m, Num(left.n * right.n))
                       [] op = "SLASH" ->
                            IF right.n = 0 THEN RuntimeError(m, "division by zero")
                            ELSE IF PyMod(left.n, right.n) = 0
                                 THEN Value(m, Num((left.n - PyMod(left.n, right.n)) \div right.n))
                                 ELSE Value(m, Val("num", left.n, "/" \o NatToStr(right.n)))
                       [] op = "PERCENT" ->
                            IF right.n = 0 THEN RuntimeError(m, "modulo by zero")
                            ELSE Value(m, Num(PyMod(left.n, right.n)))
                       [] op = "GREATER" -> Value(m, Bool(left.n > right.n))
                       [] op = "GREATER_EQUAL" -> Value(m, Bool(left.n >= right.n))
                       [] op = "LESS" -> Value(m, Bool(left.n < right.n))
                       [] op = "LESS_EQUAL" -> Value(m, Bool(left.n <= right.n))

Save(m) == [m EXCEPT !.kont[Len(m.kont)].vals = Append(@, m.acc)]
Evaluate(expr) == Frame("evaluate", expr, 0)
Execute(stmt) == Frame("execute", stmt, 0)

Interpreter_execute_expression(m) ==
    LET f == Top(m)
    IN  IF f.i = 0 THEN Descend(m, Evaluate(m.nodes[f.node].a)) ELSE Pop(m)

Interpreter_execute_print(m) ==
    LET f == Top(m)
    IN  IF f.i = 0 THEN Descend(m, Evaluate(m.nodes[f.node].a))
        ELSE Pop([m EXCEPT !.output = Append(@, stringify(m, m.acc))])

Interpreter_execute_let(m) ==
    LET f == Top(m)
        n == m.nodes[f.node]
    IN  IF f.i = 0 /\ n.a # 0 THEN Descend(m, Evaluate(n.a))
        ELSE Pop(Environment_define(m, m.environment, n.name,
                                    IF n.a # 0 THEN m.acc ELSE Nil))

Interpreter_execute_blockstmt(m) ==
    LET m1 == Environment(m, m.environment)
    IN  Interpreter_execute_block(Pop(m1), m.nodes[Top(m).node].list, Len(m1.envs))

Interpreter_execute_if(m) ==
    LET f == Top(m)
        n == m.nodes[f.node]
    IN  IF f.i = 0 THEN Descend(m, Evaluate(n.a))
        ELSE IF Interpreter_is_truthy(m.acc) THEN Replace(m, Execute(n.b))
        ELSE IF n.c # 0 THEN Replace(m, Execute(n.c))
        ELSE Pop(m)

Interpreter_execute_while(m) ==
    LET f == Top(m)
        n == m.nodes[f.node]
    IN  IF f.i = 0 THEN Descend(m, Evaluate(n.a))
        ELSE IF Interpreter_is_truthy(m.acc)
             THEN Push(Replace(m, Execute(f.node)), Execute(n.b))
        ELSE Pop(m)

Interpreter_execute_function(m) ==
    LET f == Top(m)
        m1 == RiftFunction(m, f.node, m.environment, FALSE)
    IN  Pop(Environment_define(m1, m.environment, m.nodes[f.node].name,
                               FnVal(Len(m1.functions))))

\* raise ReturnException(ret_val)
Interpreter_execute_return(m) ==
    LET f == Top(m)
        n == m.nodes[f.node]
    IN  IF f.i = 0 /\ n.a # 0 THEN Descend(m, Evaluate(n.a))
        ELSE [m EXCEPT !.mode = "return", !.acc = IF n.a # 0 THEN m.acc ELSE Nil]

RECURSIVE Interpreter_method_map(_, _, _)
Interpreter_method_map(m, methods, method_map) ==
    IF methods = <<>> THEN [m |-> m, method_map |-> method_map]
    ELSE LET name == m.nodes[Head(methods)].name
             m1 == RiftFunction(m, Head(methods), m.environment, name = "init")
         IN  Interpreter_method_map(m1, Tail(methods),
                                    (name :> Len(m1.functions)) @@ method_map)

\* lines 68-70: the frame that binds "super"
Interpreter_class_enter(m, superclass) ==
    IF superclass # 0
    THEN LET m1 == Environment(m, m.environment)
         IN  [Environment_define(m1, Len(m1.envs), "super", ClassVal(superclass))
                 EXCEPT !.environment = Len(m1.envs)]
    ELSE m

\* lines 80-82
Interpreter_class_leave(m, superclass) ==
    IF superclass # 0
    THEN IF m.envs[m.environment].enclosing = 0 THEN Crash(m, "AssertionError")
         ELSE [m EXCEPT !.environment = m.envs[m.environment].enclosing]
    ELSE m

\* the Class statement from line 66 on, superclass being the class found (0: none)
Interpreter_class_body(m, superclass) ==
    LET n == m.nodes[Top(m).node]
        m1 == Environment_define(m, m.environment, n.name, Nil)
        m2 == Interpreter_class_enter(m1, superclass)
        mm == Interpreter_method_map(m2, n.list, EmptyDict)
        m3 == [mm.m EXCEPT !.classes =
                  Append(@, [name |-> n.name, superclass |-> superclass,
                             methods |-> mm.method_map])]
        m4 == Interpreter_class_leave(m3, superclass)
        m5 == Environment_assign(m4, m4.environment, n.name, ClassVal(Len(m3.classes)))
    IN  IF m4.mode # "run" THEN m4
        ELSE IF m5.mode # "run" THEN m5
        ELSE Pop(m5)

Interpreter_execute_class(m) ==
    LET f == Top(m)
        n == m.nodes[f.node]
    IN  IF n.a = 0 THEN Interpreter_class_body(m, 0)
        ELSE IF f.i = 0 THEN Descend(m, Evaluate(n.a))
        ELSE IF m.acc.t # "class" THEN RuntimeError(m, "superclass must be a class")
        ELSE Interpreter_class_body(m, m.acc.n)

\* the loop of _execute_block: the next statement
Interpreter_block_next(m) ==
    LET f == Top(m)
    IN  Descend(m, Execute(f.list[f.i]))

\* _execute_block without the try/finally: only the normal way out restores
Interpreter_block_no_finally(m) ==
    IF m.mode = "run" THEN [Pop(m) EXCEPT !.environment = Top(m).previous]
    ELSE Pop(m)

\* the finally clause of _execute_block, on every way out of the try
Interpreter_block_finally(m) ==
    [Pop(m) EXCEPT !.environment = Top(m).previous]

Interpreter_evaluate_unary(m) ==
    LET f == Top(m)
        n == m.nodes[f.node]
    IN  IF f.i = 0 THEN Descend(m, Evaluate(n.a))
        ELSE IF n.op = "MINUS"
             THEN IF m.acc.t = "num" THEN Value(m, Num(-m.acc.n))
                  ELSE RuntimeError(m, "operand must be a number")
        ELSE Value(m, Bool(~Interpreter_is_truthy(m.acc)))

Interpreter_evaluate_binary(m) ==
    LET f == Top(m)
        n == m.nodes[f.node]
    IN  IF f.i = 0 THEN Descend(m, Evaluate(n.a))
        ELSE IF f.i = 1 THEN Descend(Save(m), Evaluate(n.b))
        ELSE Interpreter_eval_binary(m, n.op, f.vals[1], m.acc)

Interpreter_evaluate_assign(m) ==
    LET f == Top(m)
        n == m.nodes[f.node]
        m1 == IF f.node \in DOMAIN m.locals
              THEN Environment_assign_at(m, m.environment, m.locals[f.node], n.name, m.acc)
              ELSE Environment_assign(m, GLOBALS, n.name, m.acc)
    IN  IF f.i = 0 THEN Descend(m, Evaluate(n.a))
        ELSE IF m1.mode # "run" THEN m1
        ELSE Value(m1, m.acc)

Interpreter_evaluate_logical(m) ==
    LET f == Top(m)
        n == m.nodes[f.node]
    IN  IF f.i = 0 THEN Descend(m, Evaluate(n.a))
        ELSE IF n.op = "OR" /\ Interpreter_is_truthy(m.acc) THEN Value(m, m.acc)
        ELSE IF n.op # "OR" /\ ~Interpreter_is_truthy(m.acc) THEN Value(m, m.acc)
        ELSE Replace(m, Evaluate(n.b))

\* lines 137-145, callee and args evaluated
Interpreter_call(m, callee, args, world) ==
    LET arity == CASE callee.t = "fn" -> RiftFunction_arity(m, callee.n)
                   [] callee.t = "class" -> RiftClass_arity(m, callee.n)
                   [] callee.t = "native" -> NativeArity[callee.s]
                   [] OTHER -> 0
    IN  IF callee.t \notin {"fn", "class", "native"}
        THEN RuntimeError(m, "can only call functions and classes")
        ELSE IF Len(args) # arity
        THEN RuntimeError(m, "expected " \o NatToStr(arity) \o " arguments but got "
                                \o NatToStr(Len(args)))
        ELSE CASE callee.t = "fn" -> RiftFunction_call(Pop(m), callee.n, args)
               [] callee.t = "class" -> RiftClass_call(m, callee.n, args)
               [] callee.t = "native" -> NativeFunction_call(m, callee.s, args, world)

Interpreter_evaluate_call(m, world) ==
    LET f == Top(m)
        n == m.nodes[f.node]
        vals == Append(f.vals, m.acc)
    IN  IF f.i = 0 THEN Descend(m, Evaluate(n.a))
        ELSE IF f.i <= Len(n.list) THEN Descend(Save(m), Evaluate(n.list[f.i]))
        ELSE Interpreter_call(m, Head(vals), Tail(vals), world)

Interpreter_evaluate_get(m) ==
    LET f == Top(m)
        n == m.nodes[f.node]
    IN  IF f.i = 0 THEN Descend(m, Evaluate(n.a))
        ELSE IF m.acc.t = "inst" THEN RiftInstance_get(m, m.acc.n, n.name)
        ELSE RuntimeError(m, "only instances have properties")

Interpreter_evaluate_set(m) ==
    LET f == Top(m)
        n == m.nodes[f.node]
    IN  IF f.i = 0 THEN Descend(m, Evaluate(n.a))
        ELSE IF f.i = 1
             THEN IF m.acc.t # "inst" THEN RuntimeError(m, "only instances have fields")
                  ELSE Descend(Save(m), Evaluate(n.b))
        ELSE Value(RiftInstance_set(m, f.vals[1].n, n.name, m.acc), m.acc)

\* the Super case starting at the superclass of the instance's class
Interpreter_evaluate_super_dynamic(m) ==
    LET f == Top(m)
        n == m.nodes[f.node]
        instance == Environment_get_at(m.envs, m.environment, m.locals[f.node] - 1, "this")
        superclass == m.classes[m.instances[instance.v.n].klass].superclass
        method == RiftClass_find_method(m.classes, superclass, n.op)
    IN  IF superclass = 0 \/ method = 0 THEN RuntimeError(m, "undefined property")
        ELSE LET m1 == RiftFunction_bind(m, method, instance.v.n)
             IN  Value(m1, FnVal(Len(m1.functions)))

Interpreter_evaluate_super(m) ==
    LET f == Top(m)
        n == m.nodes[f.node]
        distance == m.locals[f.node]
        superclass == Environment_get_at(m.envs, m.environment, distance, "super")
        instance == Environment_get_at(m.envs, m.environment, distance - 1, "this")
        method == RiftClass_find_method(m.classes, superclass.v.n, n.op)
    IN  IF f.node \notin DOMAIN m.locals THEN Crash(m, "AssertionError")
        ELSE IF ~superclass.ok THEN Crash(m, superclass.v.s)
        ELSE IF superclass.v.t # "class" THEN Crash(m, "AssertionError")
        ELSE IF ~instance.ok THEN Crash(m, instance.v.s)
        ELSE IF instance.v.t # "inst" THEN Crash(m, "AssertionError")
        ELSE IF method = 0 THEN RuntimeError(m, "undefined property")
        ELSE LET m1 == RiftFunction_bind(m, method, instance.v.n)
             IN  Value(m1, FnVal(Len(m1.functions)))

\* an exception passes through the active call
Propagate(m) == Pop(m)

\* interpret() with the loop body in a try that swallows the exception
Interpreter_interpret_swallow(m) == [m EXCEPT !.mode = "run"]

\* interpret(): the exception leaves the loop and the call
Interpreter_interpret_raise(m) == [m EXCEPT !.kont = <<>>]

\* interpret(): the next statement of the loop
Interpreter_interpret(m) ==
    Descend(m, Execute(m.statements[Top(m).i]))

-----------------------------------------------------------------------------
(* __main__.py: run(source, interpreter)                                   *)

\* where run() goes after a stage: on to the next one, or return False
AfterScan(errors) == IF errors # <<>> THEN "idle" ELSE "parse"
AfterParse(raised, errors) == IF raised \/ errors # <<>> THEN "idle" ELSE "resolve"
\* run() without lines 41-44
AfterResolve_unchecked(errors) == "evaluate"
AfterResolve(errors) == IF errors # <<>> THEN "idle" ELSE "evaluate"

\* what run() does with an exception coming out of interpret()
RunExceptResult(exception) == IF exception = "error" THEN "False" ELSE "raised"

Returned(next, value) == IF next = "idle" THEN Append(result, value) ELSE result

Commit(m) ==
    /\ envs' = m.envs
    /\ environment' = m.environment
    /\ functions' = m.functions
    /\ classes' = m.classes
    /\ instances' = m.instances
    /\ kont' = m.kont
    /\ mode' = m.mode
    /\ acc' = m.acc
    /\ output' = m.output
    /\ errorAt' = IF mode = "run" /\ m.mode = "error" THEN kont[1].i - 1 ELSE errorAt
    /\ UNCHANGED <<pc, runs, source, scanner, parser, resolver, tokens, scanErrors,
                   parseErrors, statements, resolveErrors, nodes, locals, stages,
                   result, executed>>

Running == pc = "interpret" /\ mode = "run" /\ kont # <<>>
Raising == pc = "interpret" /\ mode # "run" /\ kont # <<>>
ExecuteAt(type) ==
    Running /\ Top(M).k = "execute" /\ nodes[Top(M).node].type = type
EvaluateAt(type) ==
    Running /\ Top(M).k = "evaluate" /\ nodes[Top(M).node].type = type

-----------------------------------------------------------------------------
(* The programs run().  A program is written as its words; Src spells the  *)
(* words out into the source text, one character per element, the words    *)
(* separated by one space.                                                 *)

Spell ==
    ("!=" :> <<"!", "=">>)
    @@ ("\"1\"" :> <<"\"", "1", "\"">>)
    @@ ("\"?\"" :> <<"\"", "?", "\"">>)
    @@ ("\"A\"" :> <<"\"", "A", "\"">>)
    @@ ("\"a" :> <<"\"", "a">>)
    @@ ("\"ab\"" :> <<"\"", "a", "b", "\"">>)
    @@ ("\"abc" :> <<"\"", "a", "b", "c">>)
    @@ ("\"b\"" :> <<"\"", "b", "\"">>)
    @@ ("\"g\"" :> <<"\"", "g", "\"">>)
    @@ ("\"hello" :> <<"\"", "h", "e", "l", "l", "o">>)
    @@ ("\"s\"" :> <<"\"", "s", "\"">>)
    @@ ("\"x\"" :> <<"\"", "x", "\"">>)
    @@ ("==" :> <<"=", "=">>)
    @@ ("and" :> <<"a", "n", "d">>)
    @@ ("b\"" :> <<"b", "\"">>)
    @@ ("c1" :> <<"c", "1">>)
    @@ ("c2" :> <<"c", "2">>)
    @@ ("class" :> <<"c", "l", "a", "s", "s">>)
    @@ ("clock" :> <<"c", "l", "o", "c", "k">>)
    @@ ("count" :> <<"c", "o", "u", "n", "t">>)
    @@ ("else" :> <<"e", "l", "s", "e">>)
    @@ ("false" :> <<"f", "a", "l", "s", "e">>)
    @@ ("fn" :> <<"f", "n">>)
    @@ ("for" :> <<"f", "o", "r">>)
    @@ ("if" :> <<"i", "f">>)
    @@ ("init" :> <<"i", "n", "i", "t">>)
    @@ ("input" :> <<"i", "n", "p", "u", "t">>)
    @@ ("len" :> <<"l", "e", "n">>)
    @@ ("let" :> <<"l", "e", "t">>)
    @@ ("makeCounter" :> <<"m", "a", "k", "e", "C", "o", "u", "n", "t", "e", "r">>)
    @@ ("nil" :> <<"n", "i", "l">>)
    @@ ("num" :> <<"n", "u", "m">>)
    @@ ("or" :> <<"o", "r">>)
    @@ ("print" :> <<"p", "r", "i", "n", "t">>)
    @@ ("return" :> <<"r", "e", "t", "u", "r", "n">>)
    @@ ("showA" :> <<"s", "h", "o", "w", "A">>)
    @@ ("str" :> <<"s", "t", "r">>)
    @@ ("super" :> <<"s", "u", "p", "e", "r">>)
    @@ ("this" :> <<"t", "h", "i", "s">>)
    @@ ("true" :> <<"t", "r", "u", "e">>)
    @@ ("type" :> <<"t", "y", "p", "e">>)
    @@ ("while" :> <<"w", "h", "i", "l", "e">>)

Chars(word) == IF word \in DOMAIN Spell THEN Spell[word] ELSE <<word>>

\* " ".join(words), by halves
RECURSIVE Src(_)
Src(words) ==
    IF words = <<>> THEN <<>>
    ELSE IF Len(words) = 1 THEN Chars(words[1])
    ELSE Src(SubSeq(words, 1, Len(words) \div 2)) \o <<" ">>
         \o Src(SubSeq(words, Len(words) \div 2 + 1, Len(words)))

RECURSIVE Repeat(_, _)
Repeat(text, n) == IF n = 0 THEN <<>> ELSE <<" ">> \o text \o Repeat(text, n - 1)

\* how many run() calls one Interpreter serves
MaxRuns == 2
\* how many times the counter is called
MaxCalls == 3

\* the head of test_closure_counter's program
CounterHead ==
    Src(<<"fn", "makeCounter", "(", ")", "{", "let", "i", "=", "0", ";",
          "fn", "count", "(", ")", "{", "i", "=", "i", "+", "1", ";",
          "return", "i", ";", "}", "return", "count", ";", "}", "let", "c",
          "=", "makeCounter", "(", ")", ";">>)

CounterCall ==
    Src(<<"print", "(", "c", "(", ")", ")", ";">>)

\* init left by a bare return inside nested blocks
InitReturn ==
    Src(<<"class", "A", "{", "init", "(", ")", "{", "if", "(", "true", ")",
          "{", "{", "return", ";", "}", "}", "}", "}", "let", "a", "=", "A",
          "(", ")", ";", "print", "(", "a", ".", "init", "(", ")", "==", "a",
          ")", ";">>)

\* init left by falling off its end
InitFallThrough ==
    Src(<<"class", "D", "{", "init", "(", "n", ")", "{", "this", ".", "n",
          "=", "n", ";", "}", "}", "let", "d", "=", "D", "(", "2", ")", ";",
          "print", "(", "d", ".", "init", "(", "3", ")", "==", "d", ")", ";",
          "print", "(", "d", ".", "n", ")", ";">>)

\* a bound method kept in a variable and in a field of another instance
BoundMethod ==
    Src(<<"class", "A", "{", "m", "(", "p", ")", "{", "return", "this", ";",
          "}", "}", "class", "G", "{", "}", "let", "a", "=", "A", "(", ")",
          ";", "let", "g", "=", "a", ".", "m", ";", "let", "h", "=", "G",
          "(", ")", ";", "h", ".", "f", "=", "a", ".", "m", ";", "print",
          "(", "g", "(", "1", ")", "==", "a", ")", ";", "print", "(", "h",
          ".", "f", "(", "1", ")", "==", "a", ")", ";">>)

\* a field named like a method
FieldShadow ==
    Src(<<"class", "A", "{", "m", "(", ")", "{", "return", "this", ";", "}",
          "}", "let", "a", "=", "A", "(", ")", ";", "a", ".", "m", "=", "1",
          ";", "print", "(", "a", ".", "m", ")", ";">>)

\* super through two levels of inheritance
SuperChain ==
    Src(<<"class", "A", "{", "m", "(", ")", "{", "print", "(", "\"A\"", ")",
          ";", "return", "this", ";", "}", "}", "class", "B", "<", "A", "{",
          "m", "(", ")", "{", "return", "super", ".", "m", "(", ")", ";",
          "}", "}", "class", "C", "<", "B", "{", "}", "let", "c", "=", "C",
          "(", ")", ";", "print", "(", "c", ".", "m", "(", ")", "==", "c",
          ")", ";", "let", "b", "=", "B", "(", ")", ";", "print", "(", "b",
          ".", "m", "(", ")", "==", "b", ")", ";">>)

\* an assignment to the variable inside its own initializer
AssignInInitializer ==
    Src(<<"{", "let", "x", "=", "x", "=", "1", ";", "print", "(", "x", ")",
          ";", "}">>)

\* test_resolver_error_use_before_decl
SelfInitializer ==
    Src(<<"let", "x", "=", "x", "+", "1", ";">>)

BlockSelfInitializer ==
    Src(<<"{", "let", "x", "=", "x", "+", "1", ";", "}">>)

\* the unclosed string of test_scan_error_unclosed_string, in a let
Unterminated ==
    Src(<<"let", "s", "=", "\"hello">>)

\* test_parse_error_returns_false
MissingExpression ==
    Src(<<"let", "a", "=", ";">>)

InitReturnsValue ==
    Src(<<"class", "A", "{", "init", "(", ")", "{", "return", "1", ";", "}",
          "}">>)

InitReturnsValueNested ==
    Src(<<"class", "A", "{", "init", "(", ")", "{", "while", "(", "true",
          ")", "{", "return", "nil", ";", "}", "}", "}">>)

\* a return with a value in a function nested in init
InitNestedFunction ==
    Src(<<"class", "A", "{", "init", "(", ")", "{", "fn", "g", "(", ")", "{",
          "return", "1", ";", "}", "}", "}", "print", "(", "A", "(", ")",
          ")", ";">>)

\* a return with a value in init after a nested function, and this after the class
InitReturnAfterNested ==
    Src(<<"class", "A", "{", "init", "(", ")", "{", "fn", "g", "(", ")", "{",
          "return", "1", ";", "}", "return", "2", ";", "}", "}", "print",
          "(", "this", ")", ";">>)

\* == and != between values of different types
CrossTypeEquality ==
    Src(<<"print", "(", "1", "==", "true", ")", ";", "print", "(", "nil",
          "==", "false", ")", ";", "print", "(", "\"1\"", "!=", "1", ")",
          ";", "print", "(", "nil", "==", "nil", ")", ";", "print", "(", "0",
          "!=", "false", ")", ";">>)

\* a local read one block below its declaration, then a global of the same name
StaleLocal ==
    Src(<<"{", "let", "a", ";", "{", "print", "(", "a", ")", ";", "}", "}",
          "let", "a", "=", "2", ";">>)

\* a built-in called with an argument it rejects
NativeInvalid ==
    Src(<<"print", "(", "1", ")", ";", "print", "(", "len", "(", "1", ")",
          ")", ";", "print", "(", "2", ")", ";">>)

NativeUnparsable ==
    Src(<<"print", "(", "num", "(", "\"x\"", ")", ")", ";">>)

\* a function of a block reads a global; the block declares the name later
LateLetGlobal ==
    Src(<<"let", "a", "=", "\"g\"", ";", "{", "fn", "showA", "(", ")", "{",
          "print", "(", "a", ")", ";", "}", "showA", "(", ")", ";", "let",
          "a", "=", "\"b\"", ";", "showA", "(", ")", ";", "print", "(", "a",
          ")", ";", "}">>)

\* the same with the name bound in an outer block
LateLetOuter ==
    Src(<<"{", "let", "a", "=", "1", ";", "{", "fn", "f", "(", ")", "{",
          "print", "(", "a", ")", ";", "}", "f", "(", ")", ";", "let", "a",
          "=", "2", ";", "f", "(", ")", ";", "print", "(", "a", ")", ";",
          "}", "}">>)

\* a token no statement begins with, after a semicolon in a block and after the block
StrayParen ==
    Src(<<"{", "print", "(", "1", ")", ";", ")", "print", "(", "2", ")", ";",
          "}", ")", ";">>)

\* two counters from two calls of makeCounter
TwoCounters ==
    Src(<<"fn", "makeCounter", "(", ")", "{", "let", "i", "=", "0", ";",
          "fn", "count", "(", ")", "{", "i", "=", "i", "+", "1", ";",
          "return", "i", ";", "}", "return", "count", ";", "}", "let", "c1",
          "=", "makeCounter", "(", ")", ";", "let", "c2", "=", "makeCounter",
          "(", ")", ";", "print", "(", "c1", "(", ")", ")", ";", "print",
          "(", "c1", "(", ")", ")", ";", "print", "(", "c2", "(", ")", ")",
          ";">>)

\* a function that reads its parameter after calling itself
Recursion ==
    Src(<<"fn", "f", "(", "n", ")", "{", "if", "(", "n", ">", "0", ")", "f",
          "(", "n", "-", "1", ")", ";", "print", "(", "n", ")", ";", "}",
          "f", "(", "2", ")", ";">>)

\* a runtime error two blocks deep in a call, at statement 3
ErrorInFunction ==
    Src(<<"let", "a", "=", "1", ";", "fn", "f", "(", ")", "{", "{", "print",
          "(", "a", "+", "nil", ")", ";", "}", "}", "f", "(", ")", ";",
          "let", "c", "=", "3", ";">>)

ErrorAtTopLevel ==
    Src(<<"let", "a", "=", "1", ";", "print", "(", "b", ")", ";", "let", "c",
          "=", "3", ";">>)

ReturnThroughBlocks ==
    Src(<<"fn", "f", "(", ")", "{", "{", "while", "(", "true", ")", "{",
          "return", "1", ";", "}", "}", "}", "print", "(", "f", "(", ")",
          ")", ";">>)

Operators ==
    Src(<<"let", "n", "=", "0", ";", "while", "(", "n", "<", "2", ")", "n",
          "=", "n", "+", "1", ";", "if", "(", "!", "(", "n", "==", "2", ")",
          "or", "false", ")", "print", "(", "-", "n", ")", ";", "else",
          "print", "(", "str", "(", "n", ")", ")", ";", "for", "(", "let",
          "i", "=", "0", ";", "i", "<", "2", ";", "i", "=", "i", "+", "1",
          ")", "print", "(", "i", "and", "n", ")", ";">>)

Natives ==
    Src(<<"print", "(", "num", "(", "input", "(", "\"?\"", ")", ")", "+",
          "len", "(", "type", "(", "clock", "(", ")", ")", ")", ")", ";">>)

\* two functions of the top level calling each other
MutualTop ==
    Src(<<"fn", "a", "(", "n", ")", "{", "if", "(", "n", "==", "0", ")",
          "return", "0", ";", "return", "b", "(", "n", ")", ";", "}", "fn",
          "b", "(", "n", ")", "{", "return", "a", "(", "n", "-", "1", ")",
          ";", "}", "print", "(", "a", "(", "1", ")", ")", ";">>)

\* the same two functions declared in a block
MutualBlock ==
    Src(<<"{", "fn", "a", "(", "n", ")", "{", "if", "(", "n", "==", "0", ")",
          "return", "0", ";", "return", "b", "(", "n", ")", ";", "}", "fn",
          "b", "(", "n", ")", "{", "return", "a", "(", "n", "-", "1", ")",
          ";", "}", "print", "(", "a", "(", "1", ")", ")", ";", "}">>)

\* the same two functions declared in a function body
MutualFunction ==
    Src(<<"fn", "f", "(", ")", "{", "fn", "a", "(", "n", ")", "{", "if", "(",
          "n", "==", "0", ")", "return", "0", ";", "return", "b", "(", "n",
          ")", ";", "}", "fn", "b", "(", "n", ")", "{", "return", "a", "(",
          "n", "-", "1", ")", ";", "}", "return", "a", "(", "1", ")", ";",
          "}", "print", "(", "f", "(", ")", ")", ";">>)

\* a return at top level
ReturnTop ==
    Src(<<"return", "1", ";">>)

\* returns in a block, an if and a loop of the top level
ReturnNested ==
    Src(<<"{", "if", "(", "true", ")", "while", "(", "true", ")", "return",
          ";", "else", "return", "1", ";", "}">>)

\* a return after the methods and functions that may return
ReturnAfterMethod ==
    Src(<<"class", "A", "{", "m", "(", ")", "{", "fn", "g", "(", ")", "{",
          "return", "1", ";", "}", "return", "g", ";", "}", "}", "{",
          "return", "A", ";", "}">>)

\* a parse error in a block of a method of a class
ErrorInMethod ==
    Src(<<"class", "A", "{", "m", "(", ")", "{", "let", "=", "1", ";",
          "print", "(", "2", ")", ";", "}", "}", "print", "(", "3", ")",
          ";">>)

\* three parse errors: the parser resumes at let, after the semicolon, and at the end
ErrorsThree ==
    Src(<<"print", "1", "+", "2", "let", "b", "=", ";", "fn">>)

\* a raised error, an error that is recorded without being raised, then an unclosed block
InvalidTarget ==
    Src(<<"let", "=", "1", ";", "a", "+", "b", "=", "1", ";", "{", "print",
          "(", "1", ")", ";">>)

\* synchronizing consumes the brace that closes the function body
BraceSkipped ==
    Src(<<"fn", "f", "(", ")", "{", "print", "(", "1", "}", "print", "(",
          "2", ")", ";">>)

\* a class statement whose superclass is not defined
SuperUndefined ==
    Src(<<"class", "a", "<", "B", "{", "m", "(", ")", "{", "return", "a",
          ";", "}", "}", "print", "(", "1", ")", ";">>)

\* a class statement in a block, its superclass a number
SuperNotClass ==
    Src(<<"let", "B", "=", "1", ";", "{", "class", "c", "<", "B", "{", "}",
          "print", "(", "1", ")", ";", "}">>)

\* a for loop, the block and while loop it stands for, and a for loop without clauses that reads the variable of the first
ForLoop ==
    Src(<<"for", "(", "let", "i", "=", "0", ";", "i", "<", "3", ";", "i",
          "=", "i", "+", "1", ")", "print", "(", "i", ")", ";", "{", "let",
          "i", "=", "0", ";", "while", "(", "i", "<", "3", ")", "{", "print",
          "(", "i", ")", ";", "i", "=", "i", "+", "1", ";", "}", "}", "for",
          "(", ";", ";", ")", "print", "(", "i", ")", ";">>)

\* a function of one parameter called with two arguments
ArityFunction ==
    Src(<<"fn", "f", "(", "a", ")", "{", "print", "(", "a", ")", ";", "}",
          "f", "(", "1", ",", "2", ")", ";", "print", "(", "3", ")", ";">>)

\* a class whose init is inherited, called with one argument and with none
ArityInherited ==
    Src(<<"class", "A", "{", "init", "(", "x", ")", "{", "print", "(", "x",
          ")", ";", "}", "}", "class", "B", "<", "A", "{", "}", "print", "(",
          "B", "(", "1", ")", ")", ";", "B", "(", ")", ";">>)

\* a class without init called with an argument
ArityNoInit ==
    Src(<<"class", "A", "{", "}", "print", "(", "A", "(", ")", ")", ";", "A",
          "(", "1", ")", ";">>)

\* a built-in of one parameter called without arguments
ArityNative ==
    Src(<<"print", "(", "len", "(", "\"ab\"", ")", ")", ";", "len", "(", ")",
          ";">>)

\* test_runtime_error_not_callable
NotCallable ==
    Src(<<"let", "x", "=", "1", ";", "x", "(", ")", ";">>)

\* a string called with an argument
NotCallableString ==
    Src(<<"\"s\"", "(", "1", ")", ";">>)

\* an assignment to a global that exists, then to a name that is defined nowhere
AssignUndefined ==
    Src(<<"fn", "f", "(", ")", "{", "print", "(", "1", ")", ";", "return",
          "2", ";", "}", "let", "y", "=", "0", ";", "y", "=", "f", "(", ")",
          ";", "x", "=", "f", "(", ")", ";", "print", "(", "3", ")", ";">>)

\* an assignment, in a block of a function, to a name that is defined nowhere
AssignUndefinedLocal ==
    Src(<<"fn", "g", "(", "p", ")", "{", "{", "let", "q", "=", "p", ";", "z",
          "=", "q", ";", "}", "}", "g", "(", "1", ")", ";">>)

PrintA ==
    Src(<<"print", "(", "a", ")", ";">>)

PrintC ==
    Src(<<"print", "(", "c", "(", ")", ")", ";">>)

\* characters outside the grammar on three lines, a string over two lines, an unterminated string
ScanErrorsLines ==
    Src(<<"let", "a", "=", "1", "@", ";">>)
    \o <<"\n">> \o Src(<<"#", "print", "(", "\"x\"", ")", ";", "$", "\"a">>)
    \o <<"\n">> \o Src(<<"b\"", "~", "\"abc", ";">>)

\* n items separated by commas
Listed(item, n) ==
    [i \in 1..(2 * n - 1) |-> IF i % 2 = 1 THEN item ELSE ","]

\* how many items the long lists have beyond the limit
Over == 2

\* a function of 255 parameters
ParamsAtLimit ==
    <<"f", "n", " ", "f", "(">> \o Listed("a", MaxParams) \o <<")", "{", "}">>

\* a function of more than 255 parameters
ParamsOverLimit ==
    <<"f", "n", " ", "f", "(">> \o Listed("a", MaxParams + Over) \o <<")", "{", "}">>

\* a call with 255 arguments
ArgsAtLimit ==
    <<"f", "(">> \o Listed("1", MaxArguments) \o <<")", ";">>

\* a call with more than 255 arguments
ArgsOverLimit ==
    <<"f", "(">> \o Listed("1", MaxArguments + Over) \o <<")", ";">>

\* a string holding a backslash and a newline, then, on line 2, a character outside the grammar
EscapedNewline ==
    <<"\"", "\\", "\n", "\"", " ", "@", " ", "1">>

\* how deep DeepParens nests its parentheses
Nesting == 90
\* an expression statement: a number inside Nesting pairs of parentheses
DeepParens ==
    Src([i \in 1..Nesting |-> "("] \o <<"1">> \o [i \in 1..Nesting |-> ")"]
        \o <<";">>)

\* test_closure_counter, the counter called MaxCalls times
Counter == CounterHead \o Repeat(CounterCall, MaxCalls)

Programs ==
    {Counter, InitReturn, InitFallThrough, BoundMethod, FieldShadow, SuperChain,
     AssignInInitializer, SelfInitializer, BlockSelfInitializer, Unterminated,
     MissingExpression, InitReturnsValue, InitReturnsValueNested,
     InitNestedFunction, ErrorInFunction, ErrorAtTopLevel, ReturnThroughBlocks,
     Operators, Natives, MutualTop, MutualBlock, MutualFunction,
     ReturnTop, ReturnNested, ReturnAfterMethod,
     ErrorInMethod, ErrorsThree, InvalidTarget, BraceSkipped, DeepParens,
     ScanErrorsLines, EscapedNewline,
     SuperUndefined, SuperNotClass, ForLoop,
     ArityFunction, ArityInherited, ArityNoInit, ArityNative, NotCallable,
     NotCallableString, AssignUndefined, AssignUndefinedLocal,
     ParamsAtLimit, ParamsOverLimit, ArgsAtLimit, ArgsOverLimit,
     InitReturnAfterNested, CrossTypeEquality, StaleLocal,
     NativeInvalid, NativeUnparsable, LateLetGlobal, LateLetOuter,
     StrayParen, TwoCounters, Recursion}

\* what a later run on the same Interpreter asks
FollowUps == {PrintA, PrintC}

\* what the host answers to clock() and input()
Worlds == [now : {5}, eof : BOOLEAN, line : {"7"}]

-----------------------------------------------------------------------------
(* The state machine                                                       *)

\* Interpreter(): the globals frame with the natives, the pointer on it
Init ==
    /\ pc = "idle"
    /\ runs = 0
    /\ source = <<>>
    /\ scanner = Scanner(<<>>)
    /\ parser = Parser(<<>>, <<>>)
    /\ resolver = Resolver(<<>>, EmptyDict)
    /\ tokens = <<>>
    /\ scanErrors = <<>>
    /\ parseErrors = <<>>
    /\ statements = <<>>
    /\ resolveErrors = <<>>
    /\ nodes = <<>>
    /\ locals = EmptyDict
    /\ envs = <<[values |-> define_natives(EmptyDict), enclosing |-> 0]>>
    /\ environment = GLOBALS
    /\ functions = <<>>
    /\ classes = <<>>
    /\ instances = <<>>
    /\ kont = <<>>
    /\ mode = "run"
    /\ acc = Nil
    /\ output = <<>>
    /\ stages = <<>>
    /\ result = <<>>
    /\ executed = <<>>
    /\ errorAt = 0

\* The heaps the parser of a run may build its tree in.  The identity of a
\* node, id(expr), is its index.  The tree of an earlier run is released
\* when run() returns unless a function or class object holds a part of it,
\* and Python may give the identity of a released object to a new one: the
\* nodes of the new run either all get identities never used before, or,
\* when no function and no class object exists, the released ones again.
Allocations ==
    IF functions = <<>> /\ classes = <<>> THEN {nodes, <<>>} ELSE {nodes}

\* run(source, interpreter) is called; line 20
RunStart ==
    /\ pc = "idle"
    /\ runs < MaxRuns
    /\ \E program \in (IF runs = 0 THEN Programs ELSE FollowUps) :
          /\ source' = program
          /\ scanner' = Scanner(program)
    /\ runs' = runs + 1
    /\ pc' = "scan"
    /\ tokens' = <<>>
    /\ scanErrors' = <<>>
    /\ parseErrors' = <<>>
    /\ statements' = <<>>
    /\ resolveErrors' = <<>>
    /\ stages' = <<>>
    /\ executed' = <<>>
    /\ errorAt' = 0
    /\ UNCHANGED <<parser, resolver, nodes, locals, envs, environment, functions,
                   classes, instances, kont, mode, acc, output, result>>

\* scan_tokens(): one turn of its loop
ScanToken ==
    /\ pc = "scan"
    /\ ~Scanner_is_at_end(scanner)
    /\ scanner' = Scanner_scan_next(scanner)
    /\ UNCHANGED <<pc, runs, source, parser, resolver, tokens, scanErrors, parseErrors,
                   statements, resolveErrors, nodes, locals, envs, environment,
                   functions, classes, instances, kont, mode, acc, output, stages,
                   result, executed, errorAt>>

\* scan_tokens() leaves its loop and returns; lines 21-27 of run()
RunScan ==
    /\ pc = "scan"
    /\ Scanner_is_at_end(scanner)
    /\ scanner' = Scanner_scan_tokens(scanner)
    /\ tokens' = scanner'.tokens
    /\ scanErrors' = scanner.errors
    /\ pc' = AfterScan(scanner.errors)
    /\ result' = Returned(AfterScan(scanner.errors), "False")
    /\ \E heap \in Allocations :
          parser' = IF AfterScan(scanner.errors) = "parse"
                    THEN [Parser(scanner'.tokens, heap) EXCEPT !.stack = <<Parser_frame("parse")>>]
                    ELSE parser
    /\ stages' = Append(stages, "scan")
    /\ UNCHANGED <<runs, source, resolver, parseErrors, statements, resolveErrors,
                   nodes, locals, envs, environment, functions, classes, instances,
                   kont, mode, acc, output, executed, errorAt>>

\* the parser's active call goes on to its next call or its return
Parsed(p) ==
    /\ parser' = p
    /\ UNCHANGED <<pc, runs, source, scanner, resolver, tokens, scanErrors, parseErrors,
                   statements, resolveErrors, nodes, locals, envs, environment,
                   functions, classes, instances, kont, mode, acc, output, stages,
                   result, executed, errorAt>>

ParseAt(f) ==
    pc = "parse" /\ parser.stack # <<>> /\ ~parser.exc /\ Parser_top(parser).f = f

ParseProgram == ParseAt("parse") /\ Parsed(Parser_parse(parser))

ParseDeclaration == ParseAt("declaration") /\ Parsed(Parser_declaration(parser))

\* a ParseError reaches the except clause of _declaration
ParseDeclarationExcept ==
    /\ pc = "parse" /\ parser.stack # <<>> /\ parser.exc /\ ~parser.recursion
    /\ Parser_top(parser).f = "declaration"
    /\ Parsed(Parser_declaration_except(parser))

\* an exception leaves a call that does not catch it: a ParseError any call
\* but _declaration, a RecursionError every call of the parser
ParseUnwind ==
    /\ pc = "parse" /\ parser.stack # <<>> /\ parser.exc
    /\ Parser_top(parser).f # "declaration" \/ parser.recursion
    /\ Parsed(Parser_unwind(parser))

ParseClassDeclaration ==
    ParseAt("class_declaration") /\ Parsed(Parser_class_declaration(parser))

ParseFunction == ParseAt("function") /\ Parsed(Parser_function(parser))

ParseLetDeclaration == ParseAt("let_declaration") /\ Parsed(Parser_let_declaration(parser))

ParseStatement == ParseAt("statement") /\ Parsed(Parser_statement(parser))

ParseIfStatement == ParseAt("if_statement") /\ Parsed(Parser_if_statement(parser))

ParsePrintStatement == ParseAt("print_statement") /\ Parsed(Parser_print_statement(parser))

ParseReturnStatement ==
    ParseAt("return_statement") /\ Parsed(Parser_return_statement(parser))

ParseWhileStatement == ParseAt("while_statement") /\ Parsed(Parser_while_statement(parser))

ParseForStatement == ParseAt("for_statement") /\ Parsed(Parser_for_statement(parser))

ParseExpressionStatement ==
    ParseAt("expression_statement") /\ Parsed(Parser_expression_statement(parser))

ParseBlockStatements ==
    ParseAt("block_statements") /\ Parsed(Parser_block_statements(parser))

ParseExpression == ParseAt("expression") /\ Parsed(Parser_expression(parser))

ParseAssignment == ParseAt("assignment") /\ Parsed(Parser_assignment(parser))

ParseOr == ParseAt("or") /\ Parsed(Parser_or(parser))

ParseAnd == ParseAt("and") /\ Parsed(Parser_and(parser))

ParseEquality == ParseAt("equality") /\ Parsed(Parser_equality(parser))

ParseComparison == ParseAt("comparison") /\ Parsed(Parser_comparison(parser))

ParseTerm == ParseAt("term") /\ Parsed(Parser_term(parser))

ParseFactor == ParseAt("factor") /\ Parsed(Parser_factor(parser))

ParseUnary == ParseAt("unary") /\ Parsed(Parser_unary(parser))

ParseCall == ParseAt("call") /\ Parsed(Parser_call(parser))

ParseFinishCall == ParseAt("finish_call") /\ Parsed(Parser_finish_call(parser))

ParsePrimary == ParseAt("primary") /\ Parsed(Parser_primary(parser))

\* parser.parse() has returned or raised; lines 28-39
RunParse ==
    /\ pc = "parse"
    /\ parser.stack = <<>>
    /\ nodes' = parser.nodes
    /\ statements' = IF parser.exc THEN <<>> ELSE parser.rs
    /\ parseErrors' = parser.errors
    /\ pc' = AfterParse(parser.exc, parser.errors)
    /\ result' = Returned(AfterParse(parser.exc, parser.errors), "False")
    /\ resolver' = IF AfterParse(parser.exc, parser.errors) = "resolve"
                   THEN [Resolver(parser.nodes, locals)
                             EXCEPT !.stack = <<Resolver_statements(parser.rs)>>]
                   ELSE resolver
    /\ stages' = Append(stages, "parse")
    /\ UNCHANGED <<runs, source, scanner, parser, tokens, scanErrors, resolveErrors,
                   locals, envs, environment, functions, classes, instances, kont,
                   mode, acc, output, executed, errorAt>>

\* the resolver's active call goes on to its next call or its return
Resolved(r) ==
    /\ resolver' = r
    /\ UNCHANGED <<pc, runs, source, scanner, parser, tokens, scanErrors, parseErrors,
                   statements, resolveErrors, nodes, locals, envs, environment,
                   functions, classes, instances, kont, mode, acc, output, stages,
                   result, executed, errorAt>>

ResolveAt(f) ==
    pc = "resolve" /\ resolver.stack # <<>> /\ Resolver_top(resolver).f = f

ResolveStatements == ResolveAt("resolve") /\ Resolved(Resolver_resolve(resolver))

ResolveStmt == ResolveAt("stmt") /\ Resolved(Resolver_resolve_stmt(resolver))

ResolveExpr == ResolveAt("expr") /\ Resolved(Resolver_resolve_expr(resolver))

ResolveFunction == ResolveAt("function") /\ Resolved(Resolver_resolve_function(resolver))

\* resolver.resolve(statements) has returned; lines 40-44
RunResolve ==
    /\ pc = "resolve"
    /\ resolver.stack = <<>>
    /\ locals' = resolver.locals
    /\ resolveErrors' = resolver.errors
    /\ pc' = AfterResolve(resolver.errors)
    /\ result' = Returned(AfterResolve(resolver.errors), "False")
    /\ stages' = Append(stages, "resolve")
    /\ UNCHANGED <<runs, source, scanner, parser, resolver, tokens, scanErrors,
                   parseErrors, statements, nodes, envs, environment, functions,
                   classes, instances, kont, mode, acc, output, executed, errorAt>>

\* line 47: interpreter.interpret(statements) is called
RunInterpret ==
    /\ pc = "evaluate"
    /\ pc' = "interpret"
    /\ kont' = <<Frame("interpret", 0, 1)>>
    /\ stages' = Append(stages, "interpret")
    /\ UNCHANGED <<runs, source, scanner, parser, resolver, tokens, scanErrors, parseErrors, statements,
                   resolveErrors, nodes, locals, envs, environment, functions,
                   classes, instances, mode, acc, output, result, executed, errorAt>>

\* interpret(): the loop takes the next statement
InterpretNext ==
    /\ Running /\ Top(M).k = "interpret" /\ Top(M).i <= Len(statements)
    /\ kont' = Interpreter_interpret(M).kont
    /\ executed' = Append(executed, statements[Top(M).i])
    /\ UNCHANGED <<pc, runs, source, scanner, parser, resolver, tokens, scanErrors, parseErrors, statements,
                   resolveErrors, nodes, locals, envs, environment, functions,
                   classes, instances, mode, acc, output, stages, result, errorAt>>

\* interpret() returns, line 51: return True
RunReturn ==
    /\ Running /\ Top(M).k = "interpret" /\ Top(M).i > Len(statements)
    /\ kont' = <<>>
    /\ pc' = "idle"
    /\ result' = Append(result, "True")
    /\ UNCHANGED <<runs, source, scanner, parser, resolver, tokens, scanErrors, parseErrors, statements,
                   resolveErrors, nodes, locals, envs, environment, functions,
                   classes, instances, mode, acc, output, stages, executed, errorAt>>

\* an exception comes out of interpret(): lines 48-50 catch a RiftRuntimeError,
\* anything else leaves run()
RunExcept ==
    /\ Raising /\ Top(M).k = "interpret"
    /\ LET m == Interpreter_interpret_raise(M)
       IN  IF m.kont = <<>>
           THEN /\ kont' = <<>>
                /\ pc' = "idle"
                /\ mode' = "run"
                /\ result' = Append(result, RunExceptResult(mode))
           ELSE /\ kont' = m.kont
                /\ mode' = m.mode
                /\ UNCHANGED <<pc, result>>
    /\ UNCHANGED <<runs, source, scanner, parser, resolver, tokens, scanErrors, parseErrors, statements,
                   resolveErrors, nodes, locals, envs, environment, functions,
                   classes, instances, acc, output, stages, executed, errorAt>>

ExecuteExpression == ExecuteAt("Expression") /\ Commit(Interpreter_execute_expression(M))

ExecutePrint == ExecuteAt("Print") /\ Commit(Interpreter_execute_print(M))

ExecuteLet == ExecuteAt("Let") /\ Commit(Interpreter_execute_let(M))

ExecuteBlock == ExecuteAt("Block") /\ Commit(Interpreter_execute_blockstmt(M))

ExecuteIf == ExecuteAt("If") /\ Commit(Interpreter_execute_if(M))

ExecuteWhile == ExecuteAt("While") /\ Commit(Interpreter_execute_while(M))

ExecuteFunction == ExecuteAt("Function") /\ Commit(Interpreter_execute_function(M))

ExecuteReturn == ExecuteAt("Return") /\ Commit(Interpreter_execute_return(M))

ExecuteClass == ExecuteAt("Class") /\ Commit(Interpreter_execute_class(M))

\* _execute_block: the next statement of the list
BlockNext ==
    /\ Running /\ Top(M).k = "block" /\ Top(M).i <= Len(Top(M).list)
    /\ Commit(Interpreter_block_next(M))

\* _execute_block: the list is done
BlockExit ==
    /\ Running /\ Top(M).k = "block" /\ Top(M).i > Len(Top(M).list)
    /\ Commit(Interpreter_block_finally(M))

\* _execute_block: an exception passes through
BlockUnwind ==
    /\ Raising /\ Top(M).k = "block"
    /\ Commit(Interpreter_block_finally(M))

EvaluateLiteral == EvaluateAt("Literal") /\ Commit(Value(M, nodes[Top(M).node].lit))

EvaluateGrouping ==
    EvaluateAt("Grouping") /\ Commit(Replace(M, Evaluate(nodes[Top(M).node].a)))

EvaluateVariable ==
    /\ EvaluateAt("Variable")
    /\ Commit(Interpreter_lookup_variable(M, nodes[Top(M).node].name, Top(M).node))

EvaluateThis ==
    /\ EvaluateAt("This")
    /\ Commit(Interpreter_lookup_variable(M, "this", Top(M).node))

EvaluateCall ==
    /\ EvaluateAt("Call")
    /\ \E world \in Worlds : Commit(Interpreter_evaluate_call(M, world))

EvaluateUnary == EvaluateAt("Unary") /\ Commit(Interpreter_evaluate_unary(M))

EvaluateBinary == EvaluateAt("Binary") /\ Commit(Interpreter_evaluate_binary(M))

EvaluateAssign == EvaluateAt("Assign") /\ Commit(Interpreter_evaluate_assign(M))

EvaluateLogical == EvaluateAt("Logical") /\ Commit(Interpreter_evaluate_logical(M))

EvaluateGet == EvaluateAt("Get") /\ Commit(Interpreter_evaluate_get(M))

EvaluateSet == EvaluateAt("Set") /\ Commit(Interpreter_evaluate_set(M))

EvaluateSuper == EvaluateAt("Super") /\ Commit(Interpreter_evaluate_super(M))

\* RiftFunction.call: the body fell off its end
CallReturn ==
    /\ Running /\ Top(M).k = "call"
    /\ Commit(RiftFunction_result(M, Top(M).x, Nil))

\* RiftFunction.call: except ReturnException
CallCatch ==
    /\ Raising /\ mode = "return" /\ Top(M).k = "call"
    /\ Commit(RiftFunction_result(M, Top(M).x, acc))

\* RiftClass.call: return instance
ClassCallReturn ==
    /\ Running /\ Top(M).k = "class_call"
    /\ Commit(Value(M, InstVal(Top(M).x)))

\* an exception passes through a call that does not handle it
Unwind ==
    /\ Raising
    /\ Top(M).k \in {"execute", "evaluate", "class_call"}
          \/ (Top(M).k = "call" /\ mode # "return")
    /\ Commit(Propagate(M))

Next ==
    \/ RunStart
    \/ ScanToken
    \/ RunScan
    \/ ParseProgram
    \/ ParseDeclaration
    \/ ParseDeclarationExcept
    \/ ParseUnwind
    \/ ParseClassDeclaration
    \/ ParseFunction
    \/ ParseLetDeclaration
    \/ ParseStatement
    \/ ParseIfStatement
    \/ ParsePrintStatement
    \/ ParseReturnStatement
    \/ ParseWhileStatement
    \/ ParseForStatement
    \/ ParseExpressionStatement
    \/ ParseBlockStatements
    \/ ParseExpression
    \/ ParseAssignment
    \/ ParseOr
    \/ ParseAnd
    \/ ParseEquality
    \/ ParseComparison
    \/ ParseTerm
    \/ ParseFactor
    \/ ParseUnary
    \/ ParseCall
    \/ ParseFinishCall
    \/ ParsePrimary
    \/ RunParse
    \/ ResolveStatements
    \/ ResolveStmt
    \/ ResolveExpr
    \/ ResolveFunction
    \/ RunResolve
    \/ RunInterpret
    \/ InterpretNext
    \/ RunReturn
    \/ RunExcept
    \/ ExecuteExpression
    \/ ExecutePrint
    \/ ExecuteLet
    \/ ExecuteBlock
    \/ ExecuteIf
    \/ ExecuteWhile
    \/ ExecuteFunction
    \/ ExecuteReturn
    \/ ExecuteClass
    \/ BlockNext
    \/ BlockExit
    \/ BlockUnwind
    \/ EvaluateLiteral
    \/ EvaluateGrouping
    \/ EvaluateVariable
    \/ EvaluateThis
    \/ EvaluateCall
    \/ EvaluateUnary
    \/ EvaluateBinary
    \/ EvaluateAssign
    \/ EvaluateLogical
    \/ EvaluateGet
    \/ EvaluateSet
    \/ EvaluateSuper
    \/ CallReturn
    \/ CallCatch
    \/ ClassCallReturn
    \/ Unwind

Spec == Init /\ [][Next]_vars

-----------------------------------------------------------------------------
(* Properties                                                              *)

Range(s) == {s[i] : i \in DOMAIN s}
StageOrder == <<"scan", "parse", "resolve", "interpret">>
Globals == envs[GLOBALS].values

\* a step enters _execute_block: a new block frame is the active call
BlockEntered ==
    /\ kont' # <<>>
    /\ kont'[Len(kont')].k = "block"
    /\ kont'[Len(kont')].i = 1
    /\ (Len(kont') > Len(kont) \/ kont[Len(kont')] # kont'[Len(kont')])

\* a step leaves _execute_block, by any way out
BlockLeft ==
    /\ kont # <<>>
    /\ Top(M).k = "block"
    /\ Len(kont') < Len(kont)

\* a step of a Class statement that names a superclass
ClassExecuted ==
    /\ pc = "interpret"
    /\ kont # <<>>
    /\ Top(M).k = "execute"
    /\ nodes[Top(M).node].type = "Class"
    /\ nodes[Top(M).node].a # 0

\* C1: _execute_block saves the environment pointer it is entered with, and
\* every way out of it (the list done, a return unwinding, a runtime error)
\* sets the pointer back to the saved one; a Class statement with a
\* superclass leaves the pointer as it was.
C1_BlockRestoresEnvironment ==
    [][/\ BlockEntered => kont'[Len(kont')].previous = environment
       /\ BlockLeft => environment' = Top(M).previous
       /\ ClassExecuted => environment' = environment]_vars

\* a return has unwound two nested blocks and a loop of a call made from the
\* top level, and the pointer is back on the globals
C1_Witness ==
    /\ source = ReturnThroughBlocks
    /\ kont # <<>>
    /\ Top(M).k = "call"
    /\ mode = "return"
    /\ Len(envs) >= 4
    /\ environment = GLOBALS

DefinesGlobal(stmt) == nodes[stmt].type \in {"Let", "Function", "Class"}

\* C2: once a runtime error has been raised in top-level statement k, the
\* statements started are exactly 1..k, what statements 1..k-1 defined is in
\* the globals frame, and when run() has returned (False) the pointer is on
\* the globals frame; a following run that prints `a` finds it.
C2_RuntimeErrorKeepsGlobals ==
    /\ errorAt > 0 =>
          /\ executed = SubSeq(statements, 1, errorAt)
          /\ \A j \in 1..(errorAt - 1) :
                DefinesGlobal(statements[j]) => nodes[statements[j]].name \in DOMAIN Globals
          /\ pc = "idle" => environment = GLOBALS /\ result[runs] = "False"
    /\ (runs = 2 /\ pc = "idle" /\ source = PrintA /\ result = <<"False", "True">>)
          => output = <<"1">>

\* the run after the failed one has printed the global defined before the
\* failing statement; what the statement after it would define is not there
C2_Witness ==
    /\ runs = 2
    /\ pc = "idle"
    /\ result = <<"False", "True">>
    /\ output = <<"1">>
    /\ "a" \in DOMAIN Globals
    /\ "c" \notin DOMAIN Globals

\* C3: the stages of a run are a prefix of scan, parse, resolve, interpret;
\* after a scan error nothing but the scanner has run, after a parse error
\* the resolver has not run, after a resolve error interpret() has not been
\* called, and run() returns False in each case.
C3_StagesInOrder ==
    /\ Len(stages) <= Len(StageOrder)
    /\ stages = SubSeq(StageOrder, 1, Len(stages))
    /\ scanErrors # <<>> => stages = <<"scan">>
    /\ parseErrors # <<>> => stages = <<"scan", "parse">>
    /\ resolveErrors # <<>> => stages = <<"scan", "parse", "resolve">>
    /\ (scanErrors # <<>> \/ parseErrors # <<>> \/ resolveErrors # <<>>)
          => pc = "idle" /\ result[runs] = "False"
    /\ pc = "scan" => stages = <<>>
    /\ pc = "parse" => stages = <<"scan">> /\ scanner.errors = <<>>
    /\ pc = "resolve" =>
          stages = <<"scan", "parse">> /\ parser.errors = <<>> /\ ~parser.exc
    /\ pc \in {"evaluate", "interpret"} =>
          Len(stages) >= 3 /\ resolver.errors = <<>> /\ parser.errors = <<>>

C3_Witness ==
    /\ resolveErrors # <<>>
    /\ stages = <<"scan", "parse", "resolve">>
    /\ pc = "idle"
    /\ result[runs] = "False"

\* the expression about to be evaluated, when the Resolver of its run has
\* given it a depth-table entry
NameUse(types) ==
    /\ Running
    /\ Top(M).k = "evaluate"
    /\ Top(M).node \in DOMAIN locals
    /\ Top(M).node \in resolver.resolved
    /\ nodes[Top(M).node].type \in types

FrameAt(distance) == Environment_ancestor(envs, environment, distance)

Holds(distance, name) ==
    /\ FrameAt(distance) # 0
    /\ name \in DOMAIN envs[FrameAt(distance)].values

\* the assignment sits in the initializer of the let that declares its name
InOwnInitializer ==
    /\ locals[Top(M).node] = 0
    /\ \E j \in 1..(Len(kont) - 1) :
          /\ kont[j].k = "execute"
          /\ nodes[kont[j].node].type = "Let"
          /\ nodes[kont[j].node].name = nodes[Top(M).node].name
          /\ \A l \in (j + 1)..Len(kont) : kont[l].k = "evaluate"

ReadsResolved ==
    /\ NameUse({"Variable", "This"})
          => Holds(locals[Top(M).node], nodes[Top(M).node].name)
    /\ NameUse({"Super"})
          => /\ Holds(locals[Top(M).node], "super")
             /\ Holds(locals[Top(M).node] - 1, "this")
    /\ (mode = "crash" /\ acc.s \in {"AssertionError", "KeyError"})
          => Top(M).node \notin resolver.resolved

\* C4 as stated: at every evaluation of a Variable, Assign, This or Super
\* expression with depth entry N, frame N exists and holds the name.
C4_AsStated ==
    /\ ReadsResolved
    /\ (NameUse({"Assign"}) /\ Top(M).i = 1)
          => Holds(locals[Top(M).node], nodes[Top(M).node].name)

\* C4, amended: frame N exists at every such evaluation and get_at/assign_at
\* never fail; frame N holds the name for Variable, This and Super, and for
\* Assign unless the assignment sits in the initializer of the let declaring
\* that name, where assign_at creates the binding.
C4_FramesMatchScopes ==
    /\ ReadsResolved
    /\ (NameUse({"Assign"}) /\ Top(M).i = 1)
          => /\ FrameAt(locals[Top(M).node]) # 0
             /\ InOwnInitializer
                   \/ Holds(locals[Top(M).node], nodes[Top(M).node].name)

\* super.m is about to be evaluated two frames above the method's own
C4_Witness ==
    /\ NameUse({"Super"})
    /\ locals[Top(M).node] = 2
    /\ Holds(2, "super")
    /\ Holds(1, "this")

\* C5: the counter returned by makeCounter() returns n on its n-th call: the
\* values printed by successive calls of c are 1, 2, 3, ...
C5_CounterCounts ==
    ("c" \in DOMAIN Globals /\ Globals["c"].t = "fn")
       => \A n \in 1..Len(output) : output[n] = NatToStr(n)

C5_Witness ==
    /\ "c" \in DOMAIN Globals
    /\ Globals["c"].t = "fn"
    /\ Len(output) = MaxCalls + 1
    /\ output[MaxCalls + 1] = NatToStr(MaxCalls + 1)

\* the frame whose "this" the function fn was bound to
BoundThis(fs, es, fn) ==
    IF "this" \in DOMAIN es[fs[fn].closure].values
    THEN es[fs[fn].closure].values["this"]
    ELSE Nil

\* a step leaves a call of an initializer, by falling off the end of the body
\* or by a return caught in RiftFunction.call
InitializerLeft ==
    /\ pc = "interpret"
    /\ kont # <<>>
    /\ Top(M).k = "call"
    /\ mode \in {"run", "return"}
    /\ functions[Top(M).x].is_initializer

\* a step of RiftClass.call that creates the instance
ClassCalled == Len(instances') > Len(instances)

\* a step returns from RiftClass.call after init has run
ClassCallLeft == Running /\ Top(M).k = "class_call"

\* C6: a call of an initializer yields the instance the initializer is bound
\* to, whether the body fell off its end or a bare return unwound to the
\* call; a call of a class creates one new instance and yields that instance,
\* at once when the class has no init and after init otherwise.  The programs
\* print what the calls yielded.
C6_InitYieldsInstance ==
    [][/\ InitializerLeft =>
             /\ mode' = "run"
             /\ acc'.t = "inst"
             /\ acc' = BoundThis(functions, envs, Top(M).x)
       /\ ClassCalled =>
             /\ Len(instances') = Len(instances) + 1
             /\ \/ acc' = InstVal(Len(instances')) /\ Len(kont') < Len(kont)
                \/ /\ Len(kont') > Len(kont)
                   /\ kont'[Len(kont)].k = "class_call"
                   /\ kont'[Len(kont)].x = Len(instances')
       /\ ClassCallLeft => acc' = InstVal(Top(M).x) /\ mode' = "run"
       /\ (source = InitReturn /\ pc' = "idle") => output' = <<"true">>
       /\ (source = InitFallThrough /\ pc' = "idle") => output' = <<"true", "3">>
       /\ (source = InitNestedFunction /\ pc' = "idle") => output' = <<"<A instance>">>]_vars

\* init was left by a bare return two blocks deep, and a.init() == a printed true
C6_Witness ==
    /\ source = InitReturn
    /\ pc = "idle"
    /\ result = <<"True">>
    /\ output = <<"true">>
    /\ Len(instances) = 1

\* the statement holds a `return v;` that belongs to the function whose body
\* it is in: nested blocks, ifs and loops are looked into, nested functions
\* and classes are not
RECURSIVE ReturnsValue(_)
ReturnsValue(stmt) ==
    CASE stmt = 0 -> FALSE
      [] nodes[stmt].type = "Return" -> nodes[stmt].a # 0
      [] nodes[stmt].type = "Block" ->
            \E i \in DOMAIN nodes[stmt].list : ReturnsValue(nodes[stmt].list[i])
      [] nodes[stmt].type = "If" -> ReturnsValue(nodes[stmt].b) \/ ReturnsValue(nodes[stmt].c)
      [] nodes[stmt].type = "While" -> ReturnsValue(nodes[stmt].b)
      [] OTHER -> FALSE

\* the statement holds a class with a method init that returns a value
RECURSIVE InitReturnsValueIn(_)
InitReturnsValueIn(stmt) ==
    CASE stmt = 0 -> FALSE
      [] nodes[stmt].type = "Class" ->
            \E i \in DOMAIN nodes[stmt].list :
               LET method == nodes[nodes[stmt].list[i]]
               IN  \/ /\ method.name = "init"
                      /\ \E j \in DOMAIN method.list : ReturnsValue(method.list[j])
                   \/ \E j \in DOMAIN method.list : InitReturnsValueIn(method.list[j])
      [] nodes[stmt].type \in {"Block", "Function"} ->
            \E i \in DOMAIN nodes[stmt].list : InitReturnsValueIn(nodes[stmt].list[i])
      [] nodes[stmt].type = "If" ->
            InitReturnsValueIn(nodes[stmt].b) \/ InitReturnsValueIn(nodes[stmt].c)
      [] nodes[stmt].type = "While" -> InitReturnsValueIn(nodes[stmt].b)
      [] OTHER -> FALSE

\* the program parsed in this run has an init with `return v;` in its body
ProgramInitReturnsValue ==
    \E i \in DOMAIN statements : InitReturnsValueIn(statements[i])

\* C7: a parsed program in which the body of a method named init holds
\* `return v;` (not inside a nested function) is never handed to
\* interpret(): the Resolver records an error for it and run() returns False.
C7_InitReturnValueRejected ==
    ProgramInitReturnsValue =>
       /\ pc \notin {"evaluate", "interpret"}
       /\ "interpret" \notin Range(stages)
       /\ "resolve" \in Range(stages) =>
             /\ resolveErrors # <<>>
             /\ pc = "idle"
             /\ result[runs] = "False"

\* the return sits in a loop inside init; the resolver has refused the program
C7_Witness ==
    /\ source = InitReturnsValueNested
    /\ ProgramInitReturnsValue
    /\ stages = <<"scan", "parse", "resolve">>
    /\ resolveErrors # <<>>
    /\ result = <<"False">>

\* a step of a Get expression whose object is an instance with a method of
\* that name on its class chain
GetsMethod ==
    /\ EvaluateAt("Get")
    /\ Top(M).i = 1
    /\ acc.t = "inst"
    /\ RiftClass_find_method(classes, instances[acc.n].klass, nodes[Top(M).node].name) # 0

\* what the step yields is the method found, bound to the instance
YieldsBound ==
    LET method == RiftClass_find_method(classes, instances[acc.n].klass,
                                        nodes[Top(M).node].name)
    IN  /\ mode' = "run"
        /\ acc'.t = "fn"
        /\ acc'.n \in DOMAIN functions'
        /\ functions'[acc'.n].declaration = functions[method].declaration
        /\ Len(nodes[functions'[acc'.n].declaration].params)
              = Len(nodes[functions[method].declaration].params)
        /\ BoundThis(functions', envs', acc'.n) = acc
        /\ envs'[functions'[acc'.n].closure].enclosing = functions[method].closure

\* a frame's binding of "this" is never changed, and a function keeps its frame
ThisKept ==
    /\ \A e \in DOMAIN envs :
          "this" \in DOMAIN envs[e].values =>
             /\ "this" \in DOMAIN envs'[e].values
             /\ envs'[e].values["this"] = envs[e].values["this"]
    /\ \A f \in DOMAIN functions : f \in DOMAIN functions' /\ functions'[f] = functions[f]

\* C8 as stated: for an instance i and a method m on its class chain, i.m
\* yields m bound to i.
C8_AsStated ==
    [][GetsMethod => YieldsBound]_vars

\* C8, amended: for an instance i with no field named m and a method m on
\* its class chain, i.m yields a new function with m's declaration (so m's
\* parameter count is its arity) whose closure is a frame binding "this" to
\* i around m's closure; no later step changes that binding or the function,
\* so `this` is i in every call, also through a variable or a field of
\* another instance: the program that calls both prints true twice.
C8_MethodBoundUnlessField ==
    [][/\ (GetsMethod /\ nodes[Top(M).node].name \notin DOMAIN instances[acc.n].fields)
             => YieldsBound
       /\ ThisKept
       /\ (source = BoundMethod /\ pc' = "idle") => output' = <<"true", "true">>]_vars

\* the method kept in a variable and the one kept in a field of another
\* instance have both been called and both returned the first instance
C8_Witness ==
    /\ source = BoundMethod
    /\ pc = "idle"
    /\ output = <<"true", "true">>
    /\ Len(instances) = 2
    /\ "f" \in DOMAIN instances[2].fields
    /\ instances[2].fields["f"].t = "fn"
    /\ BoundThis(functions, envs, instances[2].fields["f"].n) = InstVal(1)

\* the innermost call in progress
RECURSIVE InnermostCall(_)
InnermostCall(j) ==
    IF j = 0 THEN 0
    ELSE IF kont[j].k = "call" THEN j
    ELSE InnermostCall(j - 1)

\* the classes that declare the method whose call is in progress
DeclaringClasses ==
    LET call == kont[InnermostCall(Len(kont))]
    IN  {c \in DOMAIN classes :
            \E name \in DOMAIN classes[c].methods :
               functions[classes[c].methods[name]].declaration = call.node}

\* C9: a step of `super.m` in a method declared in class B yields the method
\* found from B's superclass upwards, whatever the class of the instance,
\* bound to the instance the running method is bound to; with C < B < A,
\* C().m() and B().m() both run A.m and both return the instance called on.
C9_SuperFromDeclaringClass ==
    [][/\ EvaluateAt("Super") =>
             /\ InnermostCall(Len(kont)) # 0
             /\ DeclaringClasses # {}
             /\ \A c \in DeclaringClasses :
                   LET call == kont[InnermostCall(Len(kont))]
                       method == RiftClass_find_method(classes, classes[c].superclass,
                                                       nodes[Top(M).node].op)
                   IN  /\ classes[c].superclass # 0
                       /\ method # 0
                       /\ mode' = "run"
                       /\ acc'.t = "fn"
                       /\ functions'[acc'.n].declaration = functions[method].declaration
                       /\ BoundThis(functions', envs', acc'.n)
                             = BoundThis(functions, envs, call.x)
                       /\ BoundThis(functions', envs', acc'.n).t = "inst"
       /\ (source = SuperChain /\ pc' = "idle")
             => output' = <<"A", "true", "A", "true">>]_vars

\* super.m is evaluated in B.m on an instance of C, whose superclass is B
C9_Witness ==
    /\ source = SuperChain
    /\ EvaluateAt("Super")
    /\ InnermostCall(Len(kont)) # 0
    /\ LET this == BoundThis(functions, envs, kont[InnermostCall(Len(kont))].x)
       IN  /\ this.t = "inst"
           /\ classes[instances[this.n].klass].name = "C"
           /\ \A c \in DeclaringClasses : classes[c].name = "B"

\* C10: the program `let x = x + 1;` at top level gets a resolve error and is
\* not handed to interpret().
C10_SelfInitializerRejected ==
    source = SelfInitializer =>
       /\ "resolve" \in Range(stages) => resolveErrors # <<>>
       /\ "interpret" \notin Range(stages)
       /\ pc \notin {"evaluate", "interpret"}

\* the statement lists of the program: the top level, block and function bodies
StatementLists ==
    {statements} \cup {nodes[k].list : k \in {j \in DOMAIN nodes :
                                                nodes[j].type \in {"Block", "Function"}}}

\* the functions declared after function `declaration` in the same list
LaterSiblings(declaration) ==
    {g \in DOMAIN nodes :
        /\ nodes[g].type = "Function"
        /\ \E list \in StatementLists : \E i, j \in DOMAIN list :
              i < j /\ list[i] = declaration /\ list[j] = g}

\* the callee of a call is about to be looked up, in the body of a function
\* that has a later sibling of that name and no parameter of that name
SiblingCalled ==
    /\ EvaluateAt("Variable")
    /\ Len(kont) > 1
    /\ kont[Len(kont) - 1].k = "evaluate"
    /\ nodes[kont[Len(kont) - 1].node].type = "Call"
    /\ nodes[kont[Len(kont) - 1].node].a = Top(M).node
    /\ InnermostCall(Len(kont)) # 0
    /\ LET declaration == kont[InnermostCall(Len(kont))].node
       IN  /\ \E g \in LaterSiblings(declaration) : nodes[g].name = nodes[Top(M).node].name
           /\ \A i \in DOMAIN nodes[declaration].params :
                 nodes[declaration].params[i] # nodes[Top(M).node].name

\* C11: in the body of a function, looking up the name of a function declared
\* later in the same statement list (top level, block or function body)
\* yields that sibling.
C11_SiblingReached ==
    [][SiblingCalled =>
          /\ mode' = "run"
          /\ acc'.t = "fn"
          /\ acc'.n \in DOMAIN functions
          /\ functions[acc'.n].declaration
                \in LaterSiblings(kont[InnermostCall(Len(kont))].node)]_vars

\* how many Return statements the statements hold outside every function and
\* method body: blocks, ifs and loops are looked into, functions and classes
\* are not
RECURSIVE ReturnsOutside(_)
ReturnsOutside(stmts) ==
    IF stmts = <<>> THEN 0
    ELSE LET n == nodes[Head(stmts)]
         IN  CASE n.type = "Return" -> 1 + ReturnsOutside(Tail(stmts))
               [] n.type = "Block" -> ReturnsOutside(n.list \o Tail(stmts))
               [] n.type = "If" ->
                     ReturnsOutside(<<n.b>> \o (IF n.c # 0 THEN <<n.c>> ELSE <<>>)
                                    \o Tail(stmts))
               [] n.type = "While" -> ReturnsOutside(<<n.b>> \o Tail(stmts))
               [] OTHER -> ReturnsOutside(Tail(stmts))

ReturnErrors ==
    {i \in DOMAIN resolveErrors : resolveErrors[i] = "cannot return from top-level code"}

\* C12: the resolver reports "cannot return from top-level code" once for
\* each Return statement outside every function and method body and for no
\* other; a program with such a statement is not handed to interpret(); and
\* a ReturnException is in flight only inside a function call.
C12_ReturnOutsideFunctionRejected ==
    /\ "resolve" \in Range(stages) => Cardinality(ReturnErrors) = ReturnsOutside(statements)
    /\ ReturnsOutside(statements) > 0 =>
          /\ pc \notin {"evaluate", "interpret"}
          /\ "interpret" \notin Range(stages)
          /\ "resolve" \in Range(stages) => pc = "idle" /\ result[runs] = "False"
    /\ mode = "return" => InnermostCall(Len(kont)) # 0

\* both returns under the if of the top-level block have been reported
C12_Witness ==
    /\ source = ReturnNested
    /\ ReturnsOutside(statements) = 2
    /\ resolveErrors = <<"cannot return from top-level code",
                         "cannot return from top-level code">>
    /\ result = <<"False">>

StatementTypes ==
    {"Expression", "Print", "Let", "Block", "If", "While", "Function", "Return", "Class"}

\* a step of the parser in which an exception is raised
ParseErrorRaised == pc = "parse" /\ ~parser.exc /\ parser'.exc

\* a step in which the except clause of _declaration catches a ParseError
ParseErrorCaught ==
    /\ pc = "parse"
    /\ parser.stack # <<>>
    /\ parser.exc /\ ~parser.recursion
    /\ Parser_top(parser).f = "declaration"

\* C13: while parse() runs on a token list ending in EOF the token index
\* stays inside the list; the only exception raised is a ParseError, which
\* is recorded in parser.errors and, whatever the nesting of blocks,
\* functions and classes, has a _declaration call below it that catches it
\* and returns None; so parse() returns, without an exception, a list of
\* statements.
C13_ParseReturnsWithoutRaising ==
    [][/\ pc' = "parse" =>
             /\ parser'.current \in 0..(Len(parser'.tokens) - 1)
             /\ parser'.tokens[Len(parser'.tokens)].type = "EOF"
             /\ ~parser'.recursion
             /\ parser'.exc =>
                   /\ parser'.errors # <<>>
                   /\ \E j \in DOMAIN parser'.stack : parser'.stack[j].f = "declaration"
       /\ ParseErrorRaised => Len(parser'.errors) = Len(parser.errors) + 1
       /\ ParseErrorCaught =>
             /\ ~parser'.exc
             /\ parser'.r = 0
             /\ parser'.errors = parser.errors
             /\ Len(parser'.stack) = Len(parser.stack) - 1
       /\ (pc = "parse" /\ pc' # "parse") =>
             /\ ~parser.exc
             /\ \A i \in DOMAIN statements' :
                   /\ statements'[i] \in DOMAIN nodes'
                   /\ nodes'[statements'[i]].type \in StatementTypes]_vars

ResumeTypes == {"CLASS", "FN", "LET", "FOR", "IF", "WHILE", "PRINT", "RETURN"}

\* where _synchronize may stop: at EOF, after a `;`, or before a keyword
\* that starts a declaration or a statement
Synchronized(p) ==
    \/ Parser_is_at_end(p)
    \/ p.current > 0 /\ Parser_previous(p).type = "SEMICOLON"
    \/ Parser_peek(p).type \in ResumeTypes

\* C14: when _declaration has caught a ParseError and synchronized, the
\* parser is at EOF, or has just consumed a `;`, or stands before one of
\* class, fn, let, for, if, while, print, return; it has dropped at least the
\* token of the error (unless that is EOF) and has stopped at the first such
\* point after it; the loop that called _declaration (parse or a block) goes
\* on from exactly that token: its next _declaration starts there.
C14_SynchronizeStopsAtResumePoint ==
    [][/\ ParseErrorCaught =>
             /\ Synchronized(parser')
             /\ parser'.current >= parser.current
             /\ ~Parser_is_at_end(parser) => parser'.current > parser.current
             /\ \A c \in (parser.current + 1)..(parser'.current - 1) :
                   ~Synchronized([parser EXCEPT !.current = c])
             /\ parser'.tokens = parser.tokens
             /\ Parser_top(parser').f \in {"parse", "block_statements"}
       /\ (/\ pc = "parse" /\ pc' = "parse"
           /\ Len(parser'.stack) = Len(parser.stack) + 1
           /\ Parser_top(parser').f = "declaration") =>
             /\ Parser_top(parser).f \in {"parse", "block_statements"}
             /\ parser'.current = parser.current]_vars

\* the error of `let = 1 ;` has been caught and the two tokens up to the
\* `;` dropped; the parser goes on with `a + b = 1 ;`
C14_Witness ==
    /\ source = InvalidTarget
    /\ pc = "parse"
    /\ ~parser.exc
    /\ Len(parser.errors) = 1
    /\ parser.errors[1].msg = "expected variable name"
    /\ parser.current = 4
    /\ Parser_previous(parser).type = "SEMICOLON"
    /\ Parser_peek(parser).lexeme = "a"
    /\ Parser_top(parser).f = "parse"
    /\ parser.r = 0

\* the line and the column of the character at index i of a source text
TrueLine(src, i) == 1 + Cardinality({j \in 1..(i - 1) : src[j] = "\n"})

TrueColumn(src, i) ==
    LET newlines == {j \in 1..(i - 1) : src[j] = "\n"}
    IN  i - (IF newlines = {} THEN 0
             ELSE CHOOSE j \in newlines : \A k \in newlines : k <= j)

\* a character no token, comment or blank starts with
Offending(c) ==
    /\ c \notin DOMAIN SingleChar
    /\ c \notin {"!", "=", "<", ">", "/", " ", "\r", "\t", "\n", "\"", "_"}
    /\ ~isdigit(c)
    /\ ~isalpha(c)

\* a turn of the loop of scan_tokens
ScanTurn == pc = "scan" /\ scanner' # scanner /\ pc' = "scan"

\* C15: a turn of the scanner's loop that starts at a character outside the
\* lexical grammar records one error, with the line and the column of that
\* character, and consumes it alone; a turn that starts at the quote of a
\* string that is never closed records one error with the line and the
\* column of that quote and emits no token; every other turn records no
\* error; scanning goes on after each turn, and run() is handed every error.
C15_ScanErrorsLocated ==
    [][/\ ScanTurn =>
             LET i == scanner.current + 1
                 c == scanner.source[i]
                 at(msg) == ScanError(TrueLine(scanner.source, i),
                                      TrueColumn(scanner.source, i), msg)
                 rest == (i + 1)..Len(scanner.source)
             IN  /\ scanner'.source = scanner.source
                 /\ scanner'.current > scanner.current
                 /\ Offending(c) =>
                       /\ scanner'.errors = Append(scanner.errors, at("unexpected character"))
                       /\ scanner'.tokens = scanner.tokens
                       /\ scanner'.current = i
                 /\ (c = "\"" /\ \A j \in rest : scanner.source[j] # "\"") =>
                       /\ scanner'.errors = Append(scanner.errors, at("unterminated string"))
                       /\ scanner'.tokens = scanner.tokens
                 /\ (c = "\"" /\ scanner'.errors # scanner.errors) =>
                       /\ scanner'.errors = Append(scanner.errors, at("unterminated string"))
                       /\ scanner'.tokens = scanner.tokens
                       /\ \A j \in rest :
                             scanner.source[j] = "\"" => scanner.source[j - 1] = "\\"
                 /\ (~Offending(c) /\ c # "\"") => scanner'.errors = scanner.errors
       /\ (pc = "scan" /\ pc' # "scan") =>
             /\ scanErrors' = scanner.errors
             /\ tokens'[Len(tokens')].type = "EOF"]_vars

-----------------------------------------------------------------------------
(* Re-lexing.  A text is scanned; the lexemes of its tokens, joined by     *)
(* single spaces into `source`, are scanned again by a second Scanner,     *)
(* while `tokens` keeps what the first scan returned.                      *)

\* how long the scanned texts are
MaxText == 4

RelexAlphabet == {"a", "1", ".", "\"", "\\", "=", "/", " ", "\n"}

Texts == UNION {[1..n -> RelexAlphabet] : n \in 0..MaxText}

RelexInit ==
    /\ pc = "lex"
    /\ runs = 0
    /\ source = <<>>
    /\ \E text \in Texts : scanner = Scanner(text)
    /\ parser = Parser(<<>>, <<>>)
    /\ resolver = Resolver(<<>>, EmptyDict)
    /\ tokens = <<>>
    /\ scanErrors = <<>>
    /\ parseErrors = <<>>
    /\ statements = <<>>
    /\ resolveErrors = <<>>
    /\ nodes = <<>>
    /\ locals = EmptyDict
    /\ envs = <<[values |-> define_natives(EmptyDict), enclosing |-> 0]>>
    /\ environment = GLOBALS
    /\ functions = <<>>
    /\ classes = <<>>
    /\ instances = <<>>
    /\ kont = <<>>
    /\ mode = "run"
    /\ acc = Nil
    /\ output = <<>>
    /\ stages = <<>>
    /\ result = <<>>
    /\ executed = <<>>
    /\ errorAt = 0

Relexed(next, text, toks, errors) ==
    /\ pc' = next
    /\ source' = text
    /\ tokens' = toks
    /\ scanErrors' = errors
    /\ UNCHANGED <<runs, parser, resolver, parseErrors, statements, resolveErrors,
                   nodes, locals, envs, environment, functions, classes, instances,
                   kont, mode, acc, output, stages, result, executed, errorAt>>

\* one turn of the first scan; the lexeme of a token it adds is joined on
LexToken ==
    /\ pc = "lex"
    /\ ~Scanner_is_at_end(scanner)
    /\ scanner' = Scanner_scan_next(scanner)
    /\ Relexed("lex",
               IF Len(scanner'.tokens) > Len(scanner.tokens)
               THEN source \o Scanner_lexeme(scanner') \o <<" ">>
               ELSE source,
               tokens, scanErrors)

\* the first scan returns; a text it accepted is scanned again
LexDone ==
    /\ pc = "lex"
    /\ Scanner_is_at_end(scanner)
    /\ scanner' = IF scanner.errors = <<>> THEN Scanner(source)
                  ELSE Scanner_scan_tokens(scanner)
    /\ Relexed(IF scanner.errors = <<>> THEN "relex" ELSE "rejected",
               source, Scanner_scan_tokens(scanner).tokens, scanner.errors)

\* one turn of the second scan
RelexToken ==
    /\ pc = "relex"
    /\ ~Scanner_is_at_end(scanner)
    /\ scanner' = Scanner_scan_next(scanner)
    /\ Relexed("relex", source, tokens, scanErrors)

\* the second scan returns
RelexDone ==
    /\ pc = "relex"
    /\ Scanner_is_at_end(scanner)
    /\ scanner' = Scanner_scan_tokens(scanner)
    /\ Relexed("relexed", source, tokens, scanErrors)

RelexNext == LexToken \/ LexDone \/ RelexToken \/ RelexDone

RelexSpec == RelexInit /\ [][RelexNext]_vars

Kinds(toks) == [i \in DOMAIN toks |-> toks[i].type]

\* C16: when a text has scanned without errors and its lexemes, separated
\* by spaces, have been scanned again, the second scan has produced the
\* token kinds of the first, in the same order.
C16_RelexSameKinds ==
    pc = "relexed" => Kinds(scanner.tokens) = Kinds(tokens)

\* 1.1= has been re-lexed as 1.1 = : a number with a fraction and an
\* operator that were not separated in the text
C16_Witness ==
    /\ pc = "relexed"
    /\ source = <<"1", ".", "1", " ", "=", " ">>
    /\ Len(source) > Len(scanner.source) - 1
    /\ Kinds(tokens) = <<"NUMBER", "EQUAL", "EOF">>
    /\ Kinds(scanner.tokens) = Kinds(tokens)
    /\ scanErrors = <<>>

\* the Class statements whose superclass expression is being, or has been,
\* evaluated: the active calls of _execute past line 59
ClassesPastSuperclass ==
    {j \in DOMAIN kont :
        /\ kont[j].k = "execute"
        /\ nodes[kont[j].node].type = "Class"
        /\ nodes[kont[j].node].a # 0
        /\ kont[j].i > 0}

\* C17: from the moment a Class statement evaluates its superclass
\* expression its name is bound in the current frame, to nil; so it is when
\* the statement fails with an undefined superclass or with "superclass
\* must be a class".
C17_ClassNameDeclaredFirst ==
    pc = "interpret" =>
        \A j \in ClassesPastSuperclass :
            /\ nodes[kont[j].node].name \in DOMAIN envs[environment].values
            /\ envs[environment].values[nodes[kont[j].node].name] = Nil

\* the tree below a node, in preorder, without the places of its nodes in
\* the heap and in the text; None stands for an absent child
RECURSIVE Tree(_, _)
RECURSIVE Trees(_, _)
Tree(heap, n) ==
    IF n = 0 THEN <<[NoNode EXCEPT !.type = "None"]>>
    ELSE <<[heap[n] EXCEPT !.a = 0, !.b = 0, !.c = 0, !.list = <<>>, !.line = 0]>>
         \o Tree(heap, heap[n].a) \o Tree(heap, heap[n].b) \o Tree(heap, heap[n].c)
         \o Trees(heap, heap[n].list) \o <<[NoNode EXCEPT !.type = "End"]>>

Trees(heap, list) ==
    IF list = <<>> THEN <<>>
    ELSE Tree(heap, Head(list)) \o Trees(heap, Tail(list))

\* C18: the parser turns for (init; cond; inc) body into the tree it builds
\* for { init; while (cond) { body; inc; } }, and a for without clauses into
\* a while on the literal true; run, the for loop prints 0, 1, 2 as the
\* hand-written block does, and its variable is gone after it: the loop that
\* reads it next fails on its first turn.
C18_ForIsWhile ==
    source = ForLoop =>
        /\ "parse" \in Range(stages) =>
              /\ Len(statements) = 3
              /\ Tree(nodes, statements[1]) = Tree(nodes, statements[2])
              /\ nodes[statements[3]].type = "While"
              /\ nodes[nodes[statements[3]].a].type = "Literal"
              /\ nodes[nodes[statements[3]].a].lit = Bool(TRUE)
              /\ nodes[nodes[statements[3]].b].type = "Print"
        /\ pc = "interpret" => \E k \in 0..6 : output = SubSeq(<<"0", "1", "2", "0", "1", "2">>, 1, k)
        /\ pc = "idle" =>
              /\ output = <<"0", "1", "2", "0", "1", "2">>
              /\ result = <<"False">>
              /\ acc = Str("undefined variable")

\* the two loops have run and the third has failed on the variable i
C18_Witness ==
    /\ source = ForLoop
    /\ pc = "idle"
    /\ output = <<"0", "1", "2", "0", "1", "2">>
    /\ result = <<"False">>
    /\ Len(Tree(nodes, statements[1])) > 20
    /\ nodes[statements[1]].type = "Block"

\* a Call expression has evaluated its callee and its arguments: line 137
CallDecided ==
    /\ Running
    /\ Top(M).k = "evaluate"
    /\ nodes[Top(M).node].type = "Call"
    /\ Top(M).i > Len(nodes[Top(M).node].list)

Callee == Head(Append(Top(M).vals, acc))

\* the parameter count of the init nearest on the class chain, 0 without one
RECURSIVE InitArity(_)
InitArity(c) ==
    IF c = 0 THEN 0
    ELSE IF "init" \in DOMAIN classes[c].methods
         THEN Len(nodes[functions[classes[c].methods["init"]].declaration].params)
    ELSE InitArity(classes[c].superclass)

ArityOf(callee) ==
    CASE callee.t = "fn" -> Len(nodes[functions[callee.n].declaration].params)
      [] callee.t = "class" -> InitArity(callee.n)
      [] callee.t = "native" -> NativeArity[callee.s]

\* C19: when a call has its callee and M arguments, a callee that is not a
\* function, class or built-in raises "can only call functions and
\* classes"; a callee of arity N # M (for a class the parameter count of the
\* init on its chain, 0 without one) raises "expected N arguments but got M"
\* and nothing of the callee runs: no frame, environment or instance is
\* made and nothing is printed; a function or class of arity M is called.
C19_ArityChecked ==
    [][CallDecided =>
          LET given == Len(nodes[Top(M).node].list)
          IN  /\ Callee.t \notin {"fn", "class", "native"} =>
                    /\ mode' = "error"
                    /\ acc' = Str("can only call functions and classes")
              /\ (Callee.t \in {"fn", "class", "native"} /\ ArityOf(Callee) # given) =>
                    /\ mode' = "error"
                    /\ acc' = Str("expected " \o NatToStr(ArityOf(Callee))
                                     \o " arguments but got " \o NatToStr(given))
              /\ mode' = "error" =>
                    /\ kont' = kont
                    /\ envs' = envs
                    /\ instances' = instances
                    /\ output' = output
              /\ (Callee.t \in {"fn", "class"} /\ ArityOf(Callee) = given) =>
                    mode' = "run"]_vars

\* B, whose init (x) is inherited from A, has been called with one argument
\* and then with none: the second call has failed before B's init ran again
C19_Witness ==
    /\ source = ArityInherited
    /\ pc = "idle"
    /\ acc = Str("expected 1 arguments but got 0")
    /\ output = <<"1", "<B instance>">>
    /\ Len(instances) = 1
    /\ result = <<"False">>

\* an Assign expression is the active call of _evaluate
AssignAt ==
    /\ Running
    /\ Top(M).k = "evaluate"
    /\ nodes[Top(M).node].type = "Assign"

\* C20: an assignment first evaluates its right-hand side; then, when the
\* resolver found the name in no local scope and the globals frame does not
\* define it, the runtime error "undefined variable" is raised and no frame
\* gains a name: the globals frame has the names it had; when the globals
\* frame defines it, the value is stored there.
C20_AssignUndefinedRaises ==
    [][AssignAt =>
          LET node == Top(M).node
              name == nodes[node].name
          IN  /\ Top(M).i = 0 =>
                    /\ mode' = "run"
                    /\ Len(kont') = Len(kont) + 1
                    /\ kont'[Len(kont')] = Evaluate(nodes[node].a)
                    /\ envs' = envs
              /\ (Top(M).i > 0 /\ node \notin DOMAIN locals /\ name \notin DOMAIN Globals) =>
                    /\ mode' = "error"
                    /\ acc' = Str("undefined variable")
                    /\ envs' = envs
                    /\ DOMAIN envs'[GLOBALS].values = DOMAIN Globals
              /\ (Top(M).i > 0 /\ node \notin DOMAIN locals /\ name \in DOMAIN Globals) =>
                    /\ mode' = "run"
                    /\ envs'[GLOBALS].values[name] = acc
                    /\ DOMAIN envs'[GLOBALS].values = DOMAIN Globals]_vars

\* y = f() has stored 2 in the global y, and x = f() has failed after f
\* printed for the second time, leaving the globals without x
C20_Witness ==
    /\ source = AssignUndefined
    /\ pc = "idle"
    /\ output = <<"1", "1">>
    /\ acc = Str("undefined variable")
    /\ result = <<"False">>
    /\ "x" \notin DOMAIN Globals
    /\ Globals["y"] = Num(2)

\* a turn of the loop of _function over the parameters: lines 58-62
ParamTurn == ParseAt("function") /\ Parser_top(parser).i = 1

\* a step of _finish_call that starts an argument: lines 268-270
ArgumentTurn ==
    /\ ParseAt("finish_call")
    /\ \/ Parser_top(parser).i = 0 /\ ~Parser_check(parser, "RIGHT_PAREN")
       \/ Parser_top(parser).i = 1 /\ Parser_check(parser, "COMMA")

\* the arguments _finish_call has parsed when it starts the next one
ArgumentsSoFar == Len(Parser_top(parser).list) + Parser_top(parser).i

ArityErrors(errors) ==
    {i \in DOMAIN errors :
        errors[i].msg \in {"cannot have more than 255 parameters",
                           "cannot have more than 255 arguments"}}

\* C21: a turn of the parameter loop or of the argument loop records the
\* error "cannot have more than 255 ..." exactly when 255 items have been
\* parsed before it, so first at the 256th item; the error is not raised:
\* the item is parsed and appended and the loop goes on.  So a list of 255
\* items leaves no such error, and a longer one leaves one for each item
\* beyond the 255th and a Function or Call node holding every item.
C21_ArityLimitNotFatal ==
    [][/\ ParamTurn =>
             /\ Len(Parser_top(parser).list) < MaxParams =>
                   ArityErrors(parser'.errors) = ArityErrors(parser.errors)
             /\ Len(Parser_top(parser).list) >= MaxParams =>
                   /\ Len(parser'.errors) > Len(parser.errors)
                   /\ parser'.errors[Len(parser.errors) + 1] =
                         ParseError(Parser_peek(parser),
                                    "cannot have more than 255 parameters")
             /\ Parser_check(parser, "IDENTIFIER") =>
                   /\ ~parser'.exc
                   /\ parser'.stack[Len(parser.stack)].list =
                         Append(Parser_top(parser).list, Parser_peek(parser).lexeme)
       /\ ArgumentTurn =>
             /\ ~parser'.exc
             /\ Len(parser'.stack) = Len(parser.stack) + 1
             /\ Parser_top(parser').f = "expression"
             /\ Len(parser'.stack[Len(parser.stack)].list) = ArgumentsSoFar
             /\ parser'.errors =
                   IF ArgumentsSoFar >= MaxArguments
                   THEN Append(parser.errors,
                               ParseError(Parser_peek(parser'),
                                          "cannot have more than 255 arguments"))
                   ELSE parser.errors
       /\ (pc = "parse" /\ pc' # "parse" /\ source \in {ParamsAtLimit, ArgsAtLimit}) =>
             parseErrors' = <<>>
       /\ (pc = "parse" /\ pc' # "parse" /\ source = ParamsOverLimit) =>
             /\ Len(parseErrors') = Over
             /\ ArityErrors(parseErrors') = 1..Over
             /\ Len(statements') = 1
             /\ Len(nodes'[statements'[1]].params) = MaxParams + Over
       /\ (pc = "parse" /\ pc' # "parse" /\ source = ArgsOverLimit) =>
             /\ Len(parseErrors') = Over
             /\ ArityErrors(parseErrors') = 1..Over
             /\ Len(statements') = 1
             /\ nodes'[nodes'[statements'[1]].a].type = "Call"
             /\ Len(nodes'[nodes'[statements'[1]].a].list) = MaxArguments + Over]_vars

\* the function of more than 255 parameters has been parsed: one error
\* for each parameter beyond the 255th, and a Function node with all of them
C21_Witness ==
    /\ source = ParamsOverLimit
    /\ stages = <<"scan", "parse">>
    /\ Len(parseErrors) = Over
    /\ parseErrors[1].msg = "cannot have more than 255 parameters"
    /\ Len(statements) = 1
    /\ Len(nodes[statements[1]].params) = MaxParams + Over
    /\ result = <<"False">>

\* the active calls of the resolver that have passed their first lines
Entered(stack) == {j \in DOMAIN stack : stack[j].i >= 1}

\* the _resolve_function calls among them: each has set the function kind
FunctionCalls(stack) == {j \in Entered(stack) : stack[j].f = "function"}

\* the ClassStmt cases among them: each has set the class kind
ClassCalls(stack) ==
    {j \in Entered(stack) :
        stack[j].f = "stmt" /\ resolver.nodes[stack[j].node].type = "Class"}

Innermost(S) == CHOOSE j \in S : \A k \in S : k <= j

\* the scopes the active call stack[j] has begun and not yet ended
ScopesBegun(stack, j) ==
    LET n == resolver.nodes[stack[j].node]
    IN  CASE stack[j].f = "function" -> 1
          [] stack[j].f = "stmt" /\ n.type = "Block" -> 1
          [] stack[j].f = "stmt" /\ n.type = "Class" /\ stack[j].i >= 2 ->
                IF n.a # 0 THEN 2 ELSE 1
          [] OTHER -> 0

RECURSIVE ScopesOf(_)
ScopesOf(stack) ==
    IF stack = <<>> THEN 0
    ELSE ScopesOf(SubSeq(stack, 1, Len(stack) - 1))
         + (IF Len(stack) \in Entered(stack) THEN ScopesBegun(stack, Len(stack)) ELSE 0)

\* the errors resolve() leaves for InitReturnAfterNested
AfterNestedErrors ==
    <<"cannot return a value from an initializer",
      "cannot use 'this' outside of a class">>

\* C22: at every point of resolve() the function kind is the kind of the
\* innermost function being resolved (NONE outside every function), the
\* class kind is that of the innermost class being resolved (NONE outside
\* every class) and the scope stack holds the scopes of the blocks,
\* functions and classes being resolved and no other: so each declaration
\* leaves the three as it found them, and resolve() leaves no scope and NONE
\* twice.  In InitReturnAfterNested the return in g is accepted, the return
\* of a value in init after g is rejected, and so is this after the class.
C22_RegistersRestored ==
    /\ resolver.current_function =
          IF FunctionCalls(resolver.stack) = {} THEN "NONE"
          ELSE resolver.stack[Innermost(FunctionCalls(resolver.stack))].kind
    /\ resolver.current_class =
          IF ClassCalls(resolver.stack) = {} THEN "NONE"
          ELSE IF resolver.nodes[resolver.stack[Innermost(ClassCalls(resolver.stack))].node].a # 0
               THEN "SUBCLASS" ELSE "CLASS"
    /\ Len(resolver.scopes) = ScopesOf(resolver.stack)
    /\ resolver.stack = <<>> =>
          /\ resolver.scopes = <<>>
          /\ resolver.current_function = "NONE"
          /\ resolver.current_class = "NONE"
    /\ (source = InitReturnAfterNested /\ pc = "resolve" /\ resolver.stack = <<>>) =>
          resolver.errors = AfterNestedErrors

\* resolve() has returned on InitReturnAfterNested with the two errors
C22_Witness ==
    /\ source = InitReturnAfterNested
    /\ stages = <<"scan", "parse", "resolve">>
    /\ resolveErrors = AfterNestedErrors
    /\ resolver.scopes = <<>>
    /\ resolver.current_function = "NONE"
    /\ resolver.current_class = "NONE"
    /\ result = <<"False">>

\* _eval_binary is about to compare: both operands of == or != are evaluated
EqualityAt ==
    /\ EvaluateAt("Binary")
    /\ Top(M).i >= 2
    /\ nodes[Top(M).node].op \in {"EQUAL_EQUAL", "BANG_EQUAL"}

\* C23: == on two values of different types yields false and != yields
\* true, so a number is never equal to a boolean; a comparison with nil on
\* one side yields equal only when the other side is nil too.
C23_CrossTypeUnequal ==
    [][EqualityAt =>
          LET left == Top(M).vals[1]
              right == acc
              equal == nodes[Top(M).node].op = "EQUAL_EQUAL"
          IN  /\ mode' = "run"
              /\ left.t # right.t => acc' = Bool(~equal)
              /\ (left.t = "nil" \/ right.t = "nil") =>
                    acc' = Bool(equal <=> (left.t = right.t))]_vars

\* a Variable or Assign expression is about to read or write its variable,
\* and the Resolver of its run has found the name in no scope
GlobalUse ==
    /\ Running
    /\ Top(M).k = "evaluate"
    /\ \/ nodes[Top(M).node].type = "Variable"
       \/ nodes[Top(M).node].type = "Assign" /\ Top(M).i = 1
    /\ Top(M).node \notin resolver.resolved

\* C24: in every run on an Interpreter, an expression whose name the
\* Resolver of its run found in no scope has no depth-table entry when it
\* is evaluated: entries of earlier runs do not apply to it, so the read or
\* write goes to the globals frame.
C24_GlobalsHaveNoEntry == GlobalUse => Top(M).node \notin DOMAIN locals

\* the run in progress, or the last one, has reached interpret()
Evaluating == "interpret" \in Range(stages)

\* C25: once a program has been scanned, parsed and resolved without error,
\* whatever fails during its evaluation is a RiftRuntimeError, which run()
\* catches: no other exception is in flight, a built-in that rejects its
\* argument raises none, and no run() ends by raising.
C25_EvaluationFailuresCaught ==
    /\ Evaluating => mode # "crash"
    /\ \A i \in DOMAIN result : result[i] # "raised"

-----------------------------------------------------------------------------
(* __main__.py: run_prompt().  One Interpreter serves every line.  buf is  *)
(* kept joined: source is "\n".join(buf), and as no line read is empty,    *)
(* buf is empty exactly when source is.  runs counts the lines read.  The  *)
(* loop scans, parses, resolves and evaluates by the steps of run(); pc    *)
(* "idle" is the call of input() and "exit" the end of the loop.           *)

\* how many lines the user enters at most
MaxLines == 3

LineBad == <<"@">>
LineValid == Src(<<"print", "(", "1", ")", ";">>)
LineOpen == <<"{">>
LineClose == <<"}">>
LineThis == Src(<<"this", ";">>)
LineUndefined == Src(<<"a", ";">>)
LineExit == <<" ", "E", "x", "i", "t">>

\* what the user may enter at a prompt
Lines == {LineBad, LineValid, LineOpen, LineClose, LineThis, LineUndefined, LineExit}

Whitespace == {" ", "\t", "\n", "\r"}

\* str.strip()
RECURSIVE Strip(_)
Strip(line) ==
    IF line = <<>> THEN line
    ELSE IF Head(line) \in Whitespace THEN Strip(Tail(line))
    ELSE IF line[Len(line)] \in Whitespace THEN Strip(SubSeq(line, 1, Len(line) - 1))
    ELSE line

UpperCase ==
    ("E" :> "e") @@ ("X" :> "x") @@ ("I" :> "i") @@ ("T" :> "t") @@ ("Q" :> "q")
    @@ ("U" :> "u")

\* str.lower(), on the letters of the lines
Lower(line) ==
    [i \in DOMAIN line |-> IF line[i] \in DOMAIN UpperCase THEN UpperCase[line[i]] ELSE line[i]]

\* line 78: line.strip().lower() in ("exit", "quit")
Leaves(line) == Join(Lower(Strip(line))) \in {"exit", "quit"}

\* lines 80-81: buf.append(line); source = "\n".join(buf)
Buffered(text, line) == IF text = <<>> THEN line ELSE text \o <<"\n">> \o line

\* lines 69-84: input() returns a line or raises EOFError; the line leaves
\* the loop or is added to the buffer, and the scanner is made for the
\* buffer.  After MaxLines lines the user ends the input.
PromptLine ==
    /\ pc = "idle"
    /\ runs' = IF runs < MaxLines THEN runs + 1 ELSE runs
    /\ \E world \in [eof : IF runs < MaxLines THEN BOOLEAN ELSE {TRUE}, line : Lines] :
          IF world.eof \/ Leaves(world.line)
          THEN /\ pc' = "exit"
               /\ UNCHANGED <<source, scanner>>
          ELSE /\ pc' = "scan"
               /\ source' = Buffered(source, world.line)
               /\ scanner' = Scanner(Buffered(source, world.line))
    /\ tokens' = <<>>
    /\ scanErrors' = <<>>
    /\ parseErrors' = <<>>
    /\ statements' = <<>>
    /\ resolveErrors' = <<>>
    /\ stages' = <<>>
    /\ executed' = <<>>
    /\ errorAt' = 0
    /\ UNCHANGED <<parser, resolver, nodes, locals, envs, environment, functions,
                   classes, instances, kont, mode, acc, output, result>>

\* lines 84-87: scan_tokens() returns; with scan errors the loop continues
PromptScan ==
    /\ pc = "scan"
    /\ Scanner_is_at_end(scanner)
    /\ scanner' = Scanner_scan_tokens(scanner)
    /\ tokens' = scanner'.tokens
    /\ scanErrors' = scanner.errors
    /\ pc' = AfterScan(scanner.errors)
    /\ \E heap \in Allocations :
          parser' = IF AfterScan(scanner.errors) = "parse"
                    THEN [Parser(scanner'.tokens, heap) EXCEPT !.stack = <<Parser_frame("parse")>>]
                    ELSE parser
    /\ stages' = Append(stages, "scan")
    /\ UNCHANGED <<runs, source, resolver, parseErrors, statements, resolveErrors,
                   nodes, locals, envs, environment, functions, classes, instances,
                   kont, mode, acc, output, result, executed, errorAt>>

\* lines 88-96: parse() returns or raises; with parse errors, or after an
\* exception (buf is not empty), the loop continues
PromptParse ==
    /\ pc = "parse"
    /\ parser.stack = <<>>
    /\ nodes' = parser.nodes
    /\ statements' = IF parser.exc THEN <<>> ELSE parser.rs
    /\ parseErrors' = parser.errors
    /\ pc' = AfterParse(parser.exc, parser.errors)
    /\ resolver' = IF AfterParse(parser.exc, parser.errors) = "resolve"
                   THEN [Resolver(parser.nodes, locals)
                             EXCEPT !.stack = <<Resolver_statements(parser.rs)>>]
                   ELSE resolver
    /\ stages' = Append(stages, "parse")
    /\ UNCHANGED <<runs, source, scanner, parser, tokens, scanErrors, resolveErrors,
                   locals, envs, environment, functions, classes, instances, kont,
                   mode, acc, output, result, executed, errorAt>>

\* lines 97-104: resolve() returns; the buffer is cleared, and with resolve
\* errors the loop continues
PromptResolve ==
    /\ pc = "resolve"
    /\ resolver.stack = <<>>
    /\ locals' = resolver.locals
    /\ resolveErrors' = resolver.errors
    /\ source' = <<>>
    /\ pc' = AfterResolve(resolver.errors)
    /\ stages' = Append(stages, "resolve")
    /\ UNCHANGED <<runs, scanner, parser, resolver, tokens, scanErrors, parseErrors,
                   statements, nodes, envs, environment, functions, classes,
                   instances, kont, mode, acc, output, result, executed, errorAt>>

\* line 106: interpret() returns, and the loop continues
PromptReturn ==
    /\ Running /\ Top(M).k = "interpret" /\ Top(M).i > Len(statements)
    /\ kont' = <<>>
    /\ pc' = "idle"
    /\ UNCHANGED <<runs, source, scanner, parser, resolver, tokens, scanErrors,
                   parseErrors, statements, resolveErrors, nodes, locals, envs,
                   environment, functions, classes, instances, mode, acc, output,
                   stages, result, executed, errorAt>>

\* lines 107-108: a RiftRuntimeError out of interpret() is printed and the
\* loop continues; any other exception ends run_prompt
PromptExcept ==
    /\ Raising /\ Top(M).k = "interpret"
    /\ kont' = Interpreter_interpret_raise(M).kont
    /\ pc' = IF mode = "error" THEN "idle" ELSE "exit"
    /\ mode' = "run"
    /\ UNCHANGED <<runs, source, scanner, parser, resolver, tokens, scanErrors,
                   parseErrors, statements, resolveErrors, nodes, locals, envs,
                   environment, functions, classes, instances, acc, output, stages,
                   result, executed, errorAt>>

PromptNext ==
    \/ PromptLine
    \/ ScanToken
    \/ PromptScan
    \/ ParseProgram
    \/ ParseDeclaration
    \/ ParseDeclarationExcept
    \/ ParseUnwind
    \/ ParseStatement
    \/ ParsePrintStatement
    \/ ParseExpressionStatement
    \/ ParseBlockStatements
    \/ ParseExpression
    \/ ParseAssignment
    \/ ParseOr
    \/ ParseAnd
    \/ ParseEquality
    \/ ParseComparison
    \/ ParseTerm
    \/ ParseFactor
    \/ ParseUnary
    \/ ParseCall
    \/ ParsePrimary
    \/ PromptParse
    \/ ResolveStatements
    \/ ResolveStmt
    \/ ResolveExpr
    \/ PromptResolve
    \/ RunInterpret
    \/ InterpretNext
    \/ PromptReturn
    \/ PromptExcept
    \/ ExecuteExpression
    \/ ExecutePrint
    \/ ExecuteBlock
    \/ BlockNext
    \/ BlockExit
    \/ BlockUnwind
    \/ EvaluateLiteral
    \/ EvaluateVariable
    \/ Unwind

\* run_prompt is sequential code: each step of an iteration is taken once
\* the one before it is done, and the user goes on entering lines
PromptSpec == Init /\ [][PromptNext]_vars /\ WF_vars(PromptNext)

\* the loop is back at the prompt with a buffer that holds a character the
\* scanner rejects: every text that begins with this buffer has the error
ScanErrorKept == pc = "idle" /\ source # <<>> /\ scanErrors # <<>>

\* C26: once the loop is back at the prompt with a buffer that has a scan
\* error no further input can remove, the buffer is eventually cleared, so
\* that a line entered later is scanned on its own.
C26_BrokenBufferCleared == ScanErrorKept ~> (source = <<>>)

\* the frame the depth table gives to expression expr, evaluated in the
\* current environment: the frame at its depth, or the globals frame
StaticFrame(expr) ==
    IF expr \in DOMAIN locals THEN FrameAt(locals[expr]) ELSE GLOBALS

\* a frame nearer than the static one holds the name of the Variable
\* expression about to be evaluated, with another value
RECURSIVE NearerHolds(_, _, _)
NearerHolds(e, name, static) ==
    /\ e # static
    /\ e # 0
    /\ \/ /\ name \in DOMAIN envs[e].values
          /\ envs[e].values[name] # envs[static].values[name]
       \/ NearerHolds(envs[e].enclosing, name, static)

\* C27: a Variable expression is read from the frame its depth-table entry
\* gives (the globals frame without an entry), whatever nearer frames hold
\* the name by then: a function declared in a block that reads a name bound
\* globally, or in an outer block, reads that binding on every call, before
\* and after a let of the same name in its block; the block itself reads
\* its own.
C27_ResolutionStatic ==
    [][/\ (/\ EvaluateAt("Variable")
           /\ StaticFrame(Top(M).node) # 0
           /\ nodes[Top(M).node].name \in DOMAIN envs[StaticFrame(Top(M).node)].values)
          => /\ mode' = "run"
             /\ acc' = envs[StaticFrame(Top(M).node)].values[nodes[Top(M).node].name]
       /\ (source = LateLetGlobal /\ pc = "interpret" /\ pc' = "idle")
          => output' = <<"g", "g", "b">>
       /\ (source = LateLetOuter /\ pc = "interpret" /\ pc' = "idle")
          => output' = <<"1", "1", "2">>]_vars

\* the function of LateLetGlobal is about to read a for the second time:
\* the block's frame now holds the name too, and g has been printed once
C27_Witness ==
    /\ source = LateLetGlobal
    /\ EvaluateAt("Variable")
    /\ nodes[Top(M).node].name = "a"
    /\ Top(M).node \notin DOMAIN locals
    /\ NearerHolds(environment, "a", GLOBALS)
    /\ output = <<"g">>

\* the programs whose parse is followed to its end under fairness: all but
\* the long lists of parameters and arguments
ParsePrograms ==
    Programs \ {ParamsAtLimit, ParamsOverLimit, ArgsAtLimit, ArgsOverLimit}

\* run() is called once, on a fresh Interpreter
ParseStart ==
    /\ pc = "idle"
    /\ runs = 0
    /\ \E program \in ParsePrograms :
          /\ source' = program
          /\ scanner' = Scanner(program)
    /\ runs' = runs + 1
    /\ pc' = "scan"
    /\ UNCHANGED <<parser, resolver, tokens, scanErrors, parseErrors, statements,
                   resolveErrors, nodes, locals, envs, environment, functions,
                   classes, instances, kont, mode, acc, output, stages, result,
                   executed, errorAt>>

\* run() as far as the return of parse()
ParseNext ==
    \/ ParseStart
    \/ ScanToken
    \/ RunScan
    \/ ParseProgram
    \/ ParseDeclaration
    \/ ParseDeclarationExcept
    \/ ParseUnwind
    \/ ParseClassDeclaration
    \/ ParseFunction
    \/ ParseLetDeclaration
    \/ ParseStatement
    \/ ParseIfStatement
    \/ ParsePrintStatement
    \/ ParseReturnStatement
    \/ ParseWhileStatement
    \/ ParseForStatement
    \/ ParseExpressionStatement
    \/ ParseBlockStatements
    \/ ParseExpression
    \/ ParseAssignment
    \/ ParseOr
    \/ ParseAnd
    \/ ParseEquality
    \/ ParseComparison
    \/ ParseTerm
    \/ ParseFactor
    \/ ParseUnary
    \/ ParseCall
    \/ ParseFinishCall
    \/ ParsePrimary
    \/ RunParse

\* the scanner and the parser are sequential code: each step is taken once
\* the one before it is done
ParseSpec == Init /\ [][ParseNext]_vars /\ WF_vars(ParseNext)

\* the calls the loops of parse(), _block_statements and _class_declaration
\* make, one for each iteration
Iterations(f) == f.f = "declaration" \/ (f.f = "function" /\ f.op = "method")

\* a step ends an iteration of one of the three loops: the call returns to
\* the loop, with a statement or, after _synchronize, with None
IterationEnds ==
    /\ pc = "parse"
    /\ parser.stack # <<>>
    /\ Iterations(Parser_top(parser))
    /\ Len(parser'.stack) = Len(parser.stack) - 1
    /\ ~parser'.exc

\* C28: an iteration of the loop of parse(), of _block_statements or of the
\* class body leaves the parser past the token it started at, or at EOF,
\* also when it ends in an error and _synchronize; and parse() comes to its
\* end: every run that begins to parse leaves the parser.
C28_ParseTerminates ==
    /\ [][IterationEnds =>
             \/ parser'.current > Parser_top(parser).at
             \/ Parser_is_at_end(parser')]_vars
    /\ (pc = "parse") ~> (pc # "parse")

\* an iteration of the loop of a block has ended in an error and
\* _synchronize, past the token it started at, and the loop goes on
C28_Witness ==
    /\ pc = "parse"
    /\ parser.stack # <<>>
    /\ Parser_top(parser).f = "block_statements"
    /\ Parser_top(parser).i = 1
    /\ parser.r = 0
    /\ parser.errors # <<>>
    /\ ~parser.exc
    /\ ~Parser_is_at_end(parser)
    /\ parser.current > Parser_top(parser).at

\* the values of the arguments of the call about to be made
Arguments == Tail(Append(Top(M).vals, acc))

\* a function is about to be called with as many arguments as it takes
FunctionCalled ==
    /\ CallDecided
    /\ Callee.t = "fn"
    /\ Len(Arguments) = Len(nodes[functions[Callee.n].declaration].params)

\* C29: the call of a function makes one new frame, enclosed by the frame
\* the function captured when it was declared, binds the parameters in it
\* and makes it the current frame; every frame that existed, the caller's
\* and those of other invocations among them, is as it was.  So two counters
\* made by two calls of makeCounter count apart, and a function that calls
\* itself finds its own parameter after the inner call.
C29_CallInFreshFrame ==
    [][/\ FunctionCalled =>
             LET fn == functions[Callee.n]
                 params == nodes[fn.declaration].params
                 new == Len(envs) + 1
             IN  /\ Len(envs') = new
                 /\ \A e \in DOMAIN envs : envs'[e] = envs[e]
                 /\ envs'[new].enclosing = fn.closure
                 /\ DOMAIN envs'[new].values = Range(params)
                 /\ \A i \in DOMAIN params :
                       (\A j \in DOMAIN params : j > i => params[j] # params[i])
                          => envs'[new].values[params[i]] = Arguments[i]
                 /\ environment' = new
       /\ (source = TwoCounters /\ pc = "interpret" /\ pc' = "idle")
             => output' = <<"1", "2", "1">>
       /\ (source = Recursion /\ pc = "interpret" /\ pc' = "idle")
             => output' = <<"0", "1", "2">>]_vars

\* f of Recursion has called itself twice: three frames hold n, each its
\* own value, and the first print is about to run in the innermost
C29_Witness ==
    /\ source = Recursion
    /\ Running
    /\ Len(envs) = 4
    /\ envs[2].values["n"] = Num(2)
    /\ envs[3].values["n"] = Num(1)
    /\ envs[4].values["n"] = Num(0)
    /\ envs[4].enclosing = GLOBALS
    /\ environment = 4
    /\ output = <<>>

\* a turn of the loop of scan_tokens that emits a token
TokenTurn == ScanTurn /\ Len(scanner'.tokens) = Len(scanner.tokens) + 1

\* C30: the token a turn of the scanner's loop emits carries the line and
\* the column of the first character of its lexeme, the character the turn
\* starts at, and the column is at least 1.
C30_TokensLocated ==
    [][TokenTurn =>
          LET token == scanner'.tokens[Len(scanner'.tokens)]
              i == scanner.current + 1
          IN  /\ token.line = TrueLine(scanner.source, i)
              /\ token.column = TrueColumn(scanner.source, i)
              /\ token.column >= 1]_vars

====
